---- MODULE Spec2Model ----
(***************************************************************************)
(* Viewport / smooth-scroll controller (Terminal, src/lib/terminal.ts,     *)
(* second class definition, lines 801-2597) and the keyboard / clipboard   *)
(* input coordinator (InputHandler, src/unnamed/part_001) of ghostty-web.  *)
(*                                                                         *)
(* Offsets (viewportY, targetViewportY) are JavaScript numbers that become *)
(* fractional during a smooth scroll.  They are kept here in fixed point:  *)
(* an offset of one line is the integer Unit, and every product with the   *)
(* move ratio is rounded to the nearest multiple of 1/Unit line.  Values   *)
(* whose magnitude passes Huge saturate there, as a double saturates at    *)
(* +/-Infinity.                                                            *)
(***************************************************************************)
EXTENDS Integers, Sequences, FiniteSets, TLC

\* ------------------------------------------------------------------ bounds
\* lines of history the engine keeps
MaxScrollback == 3

\* rows of the terminal grid
Rows == 2

\* an argument far outside every valid offset
FarOut == 1000

\* magnitude, in lines, at which an offset counts as infinite
HugeLines == 8

\* the clock runs from 0 to MaxNow ms in steps of TickMs
MaxNow == 100

TickMs == 50

\* wheel events delivered in one run
MaxWheel == 2

\* width and height of a cell of the canvas, in CSS pixels
CellWidth == 10

CellHeight == 20

\* columns of the terminal grid
Cols == 3

\* --------------------------------------------------------- number helpers
Unit == 36 * 36

Huge == HugeLines * Unit

Lines(n) == n * Unit

Max2(a, b) == IF a >= b THEN a ELSE b

Min2(a, b) == IF a <= b THEN a ELSE b

Abs(x) == IF x < 0 THEN -x ELSE x

\* Math.max(0, Math.min(hi, x))
Clamp(hi, x) == Max2(0, Min2(hi, x))

\* Math.floor on a fixed-point value, result again in fixed point
Floor(x) == (x \div Unit) * Unit

\* a double that leaves the representable range becomes +/-Infinity
Sat(x) == IF x > Huge THEN Huge ELSE IF x < -Huge THEN -Huge ELSE x

\* x * (n / d) rounded to the nearest fixed-point value, d > 0
RoundDiv(a, d) == IF a >= 0 THEN (2 * a + d) \div (2 * d) ELSE -((2 * (-a) + d) \div (2 * d))

RECURSIVE GCD(_, _)
GCD(a, b) == IF b = 0 THEN a ELSE GCD(b, a % b)


\* ------------------------------------------------------ program constants
DefaultSmoothScrollDuration == 100

SnapEpsilonPerUnit == 100

LineHeightFallback == 20

LegacyWheelDivisor == 33

MaxArrowsPerWheel == 5

\* smoothScrollDuration values a host page configures (0 = jump, 10 = a
\* duration shorter than one 60 Hz frame, 100 = the default)
Durations == {0, 10, DefaultSmoothScrollDuration}

\* ---------------------------------------------------------------- state
VARIABLES
  isOpen, isDisposed, wasmTerm,            \* Terminal lifecycle
  listeners,                               \* <<target, event type, listener, capture>> registrations
  scrollbackLength,                        \* engine: lines of history
  smoothScrollDuration,                    \* options.smoothScrollDuration
  viewportY, targetViewportY,              \* fixed point, see Unit
  scrollAnimationStartTime,                \* TRUE when defined
  scrollAnimationStartY,                   \* <<fixed point>>, or Undefined
  scrollAnimationFrame,                    \* TRUE when a frame id is stored
  animCallbackPending,                     \* requestAnimationFrame queue holds animateScroll
  scrollbarVisible, scrollbarHideTimeout,  \* scrollbar auto-hide state
  fadeOutPending,                          \* requestAnimationFrame queue holds fadeOutScrollbar's animate
  wheelCount,                              \* wheel gestures handled so far
  call,                                    \* the operation that ran last, its argument and the offset it started from
  scrollFired,                             \* onScroll values delivered during that operation
  dataFired                                \* onData values delivered during that operation

\* an unset optional number is the empty tuple, a set one the tuple of its value
Undefined == <<>>

tvars == <<isOpen, isDisposed, wasmTerm, listeners, scrollbackLength, smoothScrollDuration,
           viewportY, targetViewportY, scrollAnimationStartTime, scrollAnimationStartY,
           scrollAnimationFrame, animCallbackPending, scrollbarVisible,
           scrollbarHideTimeout, fadeOutPending, wheelCount, call, scrollFired, dataFired>>

lifecycleVars == <<isOpen, isDisposed, wasmTerm, listeners>>

animVars == <<targetViewportY, scrollAnimationStartTime, scrollAnimationStartY,
              scrollAnimationFrame, animCallbackPending>>

scrollbarVars == <<scrollbarVisible, scrollbarHideTimeout, fadeOutPending>>

\* InputHandler (src/unnamed/part_001), constructed directly over a container
\* as in its test-suite
VARIABLES
  handlerDisposed,                         \* InputHandler.isDisposed
  inputListeners,                          \* <<target, event type>> pairs the handler has registered
  isComposing,
  lastKeyDownData, lastKeyDownTime, unmatchedKeyDown,
  lastPasteData, lastPasteTime, lastPasteSource,
  lastCompositionData, lastCompositionTime,
  lastBeforeInputData, lastBeforeInputTime,
  now,                                     \* performance.now(), in ms
  ev                                       \* the event delivered last and what its handler did

\* history: the payload of the latest keydown emission that no beforeinput
\* with an equal mapped output has followed yet (emitted at lastKeyDownTime)
keyDownVars == <<lastKeyDownData, lastKeyDownTime, unmatchedKeyDown>>

pasteVars == <<lastPasteData, lastPasteTime, lastPasteSource>>

compositionVars == <<lastCompositionData, lastCompositionTime>>

beforeInputVars == <<lastBeforeInputData, lastBeforeInputTime>>

ivars == <<handlerDisposed, inputListeners, isComposing, keyDownVars, pasteVars, compositionVars,
           beforeInputVars, now, ev>>

\* SelectionManager (src/unnamed/part_000), the engine's screen it reads, and the
\* scrollbar drag state of Terminal
VARIABLES
  rows,                                    \* Terminal.rows, also the rows of the engine's screen
  grid,                                    \* the engine's screen: one sequence of cells per row
  selectionStart, selectionEnd,            \* <<>> (null) or <<cell>>
  isSelecting,
  previousSelection,                       \* <<>> (null) or <<normalized coordinates>>
  selectionText,                           \* what getSelection() returned last
  isDraggingScrollbar,
  scrollbarDragStart,                      \* <<>> (null) or <<mouseY>>
  scrollbarDragStartViewportY,             \* fixed point, as viewportY
  managerWasmTerm                          \* SelectionManager.wasmTerm: <<>> while it is the
                                           \* Terminal's engine, <<its rows>> once reset() freed it

selectionVars == <<selectionStart, selectionEnd, isSelecting, previousSelection>>

dragVars == <<isDraggingScrollbar, scrollbarDragStart, scrollbarDragStartViewportY>>

\* Terminal's throttle of link hovering (handleMouseMove)
VARIABLES
  mouseMoveThrottleTimeout,                \* <<>> (undefined) or <<ms until the timer is due>>
  pendingMouseMove,                        \* <<>> (undefined) or <<the event's position>>
  hoverRuns,                               \* positions processMouseMove was called with by the
                                           \* mouse handler or timer that ran last
  hoverAge                                 \* history: <<ms since the latest processMouseMove
                                           \* call>>, counted up to the throttle interval

\* Terminal's link hovering: the lookups processMouseMove has started and what
\* their completion callbacks set
VARIABLES
  linkLookups,                             \* getLinkAt promises not settled yet, oldest first:
                                           \* the link each resolves with (<<>>: none) and,
                                           \* as history, whether a newer lookup has resolved
                                           \* or the pointer has left since it was started
  currentHoveredLink,                      \* <<>> (undefined) or <<link>>
  cursor,                                  \* element.style.cursor
  hoveredLinkRange,                        \* the renderer's: <<>> (null) or <<viewport row>>
  pointerLink                              \* history: the link under the pointer at the latest
                                           \* mousemove, <<>> after a mouseleave

\* CanvasRenderer: the rows of the canvas that carry the selection highlight,
\* as the last rendered frame left them
VARIABLE highlightedRows

\* history of the current click or drag: <<text>> once its release has handed
\* text to copyToClipboard and fired the selection-change event, <<>> from the
\* press on until then
VARIABLE copiedText

linkVars == <<linkLookups, currentHoveredLink, cursor, hoveredLinkRange, pointerLink>>

hoverVars == <<mouseMoveThrottleTimeout, pendingMouseMove, hoverRuns, hoverAge, linkVars>>

svars == <<rows, grid, selectionVars, selectionText, dragVars, managerWasmTerm, highlightedRows, copiedText,
          hoverVars>>

vars == <<tvars, ivars, svars>>

Call(op, arg) == [op |-> op, arg |-> arg, pre |-> viewportY, threw |-> FALSE]

Threw(op, arg) == [op |-> op, arg |-> arg, pre |-> viewportY, threw |-> TRUE]

\* EventEmitter.fire: the values reach the listeners until the emitter is disposed
Fire(values) == IF isDisposed THEN <<>> ELSE values

\* Terminal.getScrollbackLength
getScrollbackLength == IF wasmTerm THEN scrollbackLength ELSE 0


\* ----------------------------------------------- immediate-mode scrolling
\* Each operator gives the outcome of one method from the offset vy and the
\* scrollback length sb: the new offset, the onScroll values fired and
\* whether showScrollbar() is called.
Outcome(vy, fired, show) == [vy |-> vy, fired |-> fired, show |-> show]

\* Terminal.scrollLines, after the wasmTerm check
scrollLines(vy, sb, amount) ==
  LET newViewportY == Clamp(Lines(sb), vy - Lines(amount))
  IN  IF newViewportY # vy
      THEN Outcome(newViewportY, <<newViewportY>>, sb > 0)
      ELSE Outcome(vy, <<>>, FALSE)

\* Terminal.scrollToTop
scrollToTop(vy, sb) ==
  IF sb > 0 /\ vy # Lines(sb)
  THEN Outcome(Lines(sb), <<Lines(sb)>>, TRUE)
  ELSE Outcome(vy, <<>>, FALSE)

\* scrollToBottom without its notification; C3 does not hold of it
scrollToBottom_Silent(vy, sb) ==
  IF vy # 0
  THEN Outcome(0, <<>>, sb > 0)
  ELSE Outcome(vy, <<>>, FALSE)

\* Terminal.scrollToBottom
scrollToBottom(vy, sb) ==
  IF vy # 0
  THEN Outcome(0, <<0>>, sb > 0)
  ELSE Outcome(vy, <<>>, FALSE)

\* Terminal.scrollToLine, the line given as an offset in fixed point
scrollToOffset(vy, sb, y) ==
  LET newViewportY == Clamp(Lines(sb), y)
  IN  IF newViewportY # vy
      THEN Outcome(newViewportY, <<newViewportY>>, sb > 0)
      ELSE Outcome(vy, <<>>, FALSE)

\* Terminal.scrollToLine
scrollToLine(vy, sb, line) == scrollToOffset(vy, sb, Lines(line))

\* Terminal.showScrollbar: make the bar visible, clear the auto-hide timer and
\* arm it again unless the thumb is being dragged
showScrollbar(dragging) ==
  /\ scrollbarVisible' = TRUE
  /\ scrollbarHideTimeout' = ~dragging
  /\ UNCHANGED fadeOutPending

ShowScrollbar == showScrollbar(isDraggingScrollbar)

\* The state change of one immediate-mode call with outcome r
Apply(r) ==
  /\ viewportY' = r.vy
  /\ scrollFired' = Fire(r.fired)
  /\ IF r.show THEN ShowScrollbar ELSE UNCHANGED scrollbarVars

ScrollLines(amount) ==
  /\ UNCHANGED <<wheelCount, ivars, svars>>
  /\ call' = IF wasmTerm THEN Call("scrollLines", amount) ELSE Threw("scrollLines", amount)
  /\ IF wasmTerm
     THEN Apply(scrollLines(viewportY, getScrollbackLength, amount))
     ELSE UNCHANGED <<viewportY, scrollFired, scrollbarVars>>
  /\ dataFired' = <<>>
  /\ UNCHANGED <<lifecycleVars, scrollbackLength, smoothScrollDuration, animVars>>

\* Terminal.scrollPages: scrollLines(amount * rows)
ScrollPages(amount) ==
  /\ UNCHANGED <<wheelCount, ivars, svars>>
  /\ call' = IF wasmTerm THEN Call("scrollPages", amount) ELSE Threw("scrollPages", amount)
  /\ IF wasmTerm
     THEN Apply(scrollLines(viewportY, getScrollbackLength, amount * rows))
     ELSE UNCHANGED <<viewportY, scrollFired, scrollbarVars>>
  /\ dataFired' = <<>>
  /\ UNCHANGED <<lifecycleVars, scrollbackLength, smoothScrollDuration, animVars>>

ScrollToTop ==
  /\ UNCHANGED <<wheelCount, ivars, svars>>
  /\ call' = Call("scrollToTop", 0)
  /\ Apply(scrollToTop(viewportY, getScrollbackLength))
  /\ dataFired' = <<>>
  /\ UNCHANGED <<lifecycleVars, scrollbackLength, smoothScrollDuration, animVars>>

ScrollToBottom ==
  /\ UNCHANGED <<wheelCount, ivars, svars>>
  /\ call' = Call("scrollToBottom", 0)
  /\ Apply(scrollToBottom(viewportY, getScrollbackLength))
  /\ dataFired' = <<>>
  /\ UNCHANGED <<lifecycleVars, scrollbackLength, smoothScrollDuration, animVars>>

ScrollToLine(line) ==
  /\ UNCHANGED <<wheelCount, ivars, svars>>
  /\ call' = Call("scrollToLine", line)
  /\ Apply(scrollToLine(viewportY, getScrollbackLength, line))
  /\ dataFired' = <<>>
  /\ UNCHANGED <<lifecycleVars, scrollbackLength, smoothScrollDuration, animVars>>

\* ------------------------------------------------------------ lifecycle
\* Terminal.assertOpen
assertOpen == ~isDisposed /\ isOpen

\* the listeners registered on the parent element and on document by open()
\* and by the SelectionManager it creates
OpenListeners ==
  {<<"parent", "beforeinput", "(anonymous)", FALSE>>,
   <<"document", "mouseup", "SelectionManager.boundMouseUpHandler", FALSE>>,
   <<"parent", "mousedown", "handleMouseDown", TRUE>>,
   <<"parent", "mousemove", "handleMouseMove", FALSE>>,
   <<"parent", "mouseleave", "handleMouseLeave", FALSE>>,
   <<"parent", "click", "handleClick", FALSE>>,
   <<"document", "mouseup", "handleMouseUp", FALSE>>,
   <<"parent", "wheel", "handleWheel", TRUE>>}

\* the removeEventListener calls of cleanupComponents (SelectionManager.dispose
\* included), open being the value of this.isOpen when it runs; a registration
\* is removed by the same target, type, listener and capture flag only
RemovedByCleanup(open) ==
  {<<"document", "mouseup", "SelectionManager.boundMouseUpHandler", FALSE>>,
   <<"parent", "wheel", "handleWheel", FALSE>>,
   <<"parent", "mousedown", "handleMouseDown", TRUE>>,
   <<"parent", "mousemove", "handleMouseMove", FALSE>>,
   <<"parent", "mouseleave", "handleMouseLeave", FALSE>>,
   <<"parent", "click", "handleClick", FALSE>>}
    \cup (IF open THEN {<<"document", "mouseup", "handleMouseUp", FALSE>>} ELSE {})

\* Terminal.open: creates the engine terminal (empty scrollback) and the components
Open ==
  /\ UNCHANGED <<wheelCount, ivars, svars>>
  /\ scrollFired' = <<>>
  /\ dataFired' = <<>>
  /\ IF isOpen \/ isDisposed
     THEN /\ call' = Threw("open", 0)
          /\ UNCHANGED <<isOpen, wasmTerm, listeners, scrollbackLength>>
     ELSE /\ call' = Call("open", 0)
          /\ isOpen' = TRUE
          /\ wasmTerm' = TRUE
          /\ listeners' = listeners \cup OpenListeners
          /\ scrollbackLength' = 0
  /\ UNCHANGED <<isDisposed, smoothScrollDuration, viewportY, animVars, scrollbarVars>>

\* Terminal.dispose with cleanupComponents: cancels the pending animation frame,
\* clears the throttle timer of link hovering and the scrollbar timer, frees the
\* engine terminal
Dispose ==
  /\ UNCHANGED <<wheelCount, ivars, rows, grid, selectionVars, selectionText, dragVars,
                 managerWasmTerm, highlightedRows, copiedText, hoverRuns, hoverAge, linkVars>>
  /\ call' = Call("dispose", 0)
  /\ scrollFired' = <<>>
  /\ dataFired' = <<>>
  /\ IF isDisposed
     THEN UNCHANGED <<lifecycleVars, scrollbackLength, scrollAnimationFrame,
                      animCallbackPending, scrollbarHideTimeout, mouseMoveThrottleTimeout,
                      pendingMouseMove>>
     ELSE /\ isDisposed' = TRUE
          /\ mouseMoveThrottleTimeout' = <<>>
          /\ pendingMouseMove' = <<>>
          /\ isOpen' = FALSE
          /\ wasmTerm' = FALSE
          /\ listeners' = listeners \ RemovedByCleanup(FALSE)
          /\ scrollbackLength' = 0
          /\ scrollAnimationFrame' = FALSE
          /\ animCallbackPending' = IF scrollAnimationFrame THEN FALSE ELSE animCallbackPending
          /\ scrollbarHideTimeout' = FALSE
  /\ UNCHANGED <<smoothScrollDuration, viewportY, targetViewportY, scrollAnimationStartTime,
                 scrollAnimationStartY, scrollbarVisible, fadeOutPending>>

\* Terminal.write / writeInternal: the engine parses the data (grow new lines
\* scroll into history, up to the scrollback limit; respond: the engine queued a
\* reply such as a DSR report; screen: the rows of the screen afterwards, cut
\* to its height), then the viewport snaps to the live tail
Write(grow, respond, screen) ==
  /\ UNCHANGED <<wheelCount, ivars, rows, selectionVars, selectionText, dragVars,
                 managerWasmTerm, highlightedRows, copiedText, hoverVars>>
  /\ grid' = IF assertOpen THEN [row \in 1..rows |-> screen[row]] ELSE grid
  /\ IF ~assertOpen
     THEN /\ call' = Threw("write", grow)
          /\ scrollFired' = <<>>
          /\ dataFired' = <<>>
          /\ UNCHANGED <<lifecycleVars, scrollbackLength, smoothScrollDuration, viewportY,
                         animVars, scrollbarVars>>
     ELSE /\ call' = Call("write", grow)
          /\ scrollbackLength' = Min2(MaxScrollback, scrollbackLength + grow)
          /\ dataFired' = Fire(IF respond THEN <<"response">> ELSE <<>>)
          /\ IF viewportY # 0
             THEN Apply(scrollToBottom(viewportY, scrollbackLength'))
             ELSE UNCHANGED <<viewportY, scrollbarVars>> /\ scrollFired' = <<>>
          /\ UNCHANGED <<lifecycleVars, smoothScrollDuration, animVars>>

\* an empty row of the screen: every cell without a character, one column wide
BlankLine == [col \in 1..Cols |-> [codepoint |-> "NUL", width |-> 1]]

\* Terminal.reset: frees the engine terminal and creates a fresh one; the
\* SelectionManager keeps the engine it was constructed with
Reset ==
  /\ UNCHANGED <<wheelCount, ivars, rows, selectionVars, selectionText, dragVars,
                 hoverVars, highlightedRows, copiedText>>
  /\ IF ~assertOpen
     THEN /\ call' = Threw("reset", 0)
          /\ scrollFired' = <<>>
          /\ dataFired' = <<>>
          /\ UNCHANGED <<lifecycleVars, scrollbackLength, smoothScrollDuration, viewportY,
                         animVars, scrollbarVars, grid, managerWasmTerm>>
     ELSE /\ call' = Call("reset", 0)
          /\ scrollbackLength' = 0
          /\ grid' = [row \in 1..rows |-> BlankLine]
          /\ managerWasmTerm' = IF managerWasmTerm = <<>> THEN <<rows>> ELSE managerWasmTerm
          /\ scrollFired' = <<>>
          /\ dataFired' = <<>>
          /\ UNCHANGED <<lifecycleVars, smoothScrollDuration, viewportY, animVars, scrollbarVars>>


\* -------------------------------------------------------- smooth scrolling
\* moveRatio = 1 - (1 / framesForDuration) ** 2 with
\* framesForDuration = (duration / 1000) * 60, as the reduced fraction
\* MoveRatioNum / MoveRatioDen = (9 d^2 - 2500) / (9 d^2)
MoveRatioNum(duration) ==
  (9 * duration * duration - 2500) \div GCD(Abs(9 * duration * duration - 2500), 9 * duration * duration)

MoveRatioDen(duration) ==
  (9 * duration * duration) \div GCD(Abs(9 * duration * duration - 2500), 9 * duration * duration)

\* absDistance < 0.01
VeryClose(distance) == Abs(distance) * SnapEpsilonPerUnit < Unit

\* One run of Terminal.animateScroll past its guard, from offset vy toward target:
\* the new offset, the onScroll value, showScrollbar, and whether another frame
\* is requested
animateScroll(vy, target, sb, duration) ==
  LET distance == target - vy
      moved == Sat(vy + RoundDiv(distance * MoveRatioNum(duration), MoveRatioDen(duration)))
  IN  IF VeryClose(distance)
      THEN [vy |-> target, fired |-> <<Floor(target)>>, show |-> sb > 0, running |-> FALSE]
      ELSE [vy |-> moved, fired |-> <<Floor(moved)>>, show |-> sb > 0, running |-> TRUE]

\* The state change of one run of animateScroll with outcome r
ApplyAnimation(r) ==
  /\ viewportY' = r.vy
  /\ scrollFired' = Fire(r.fired)
  /\ IF r.show THEN ShowScrollbar ELSE UNCHANGED scrollbarVars
  /\ scrollAnimationFrame' = r.running
  /\ animCallbackPending' = r.running

\* Terminal.smoothScrollTo
smoothScrollTo(targetY) ==
  LET sb == getScrollbackLength
      newTarget == Clamp(Lines(sb), targetY)
  IN  IF ~wasmTerm
      THEN UNCHANGED <<viewportY, animVars, scrollbarVars>> /\ scrollFired' = <<>>
      ELSE IF smoothScrollDuration = 0
      THEN /\ viewportY' = newTarget
           /\ targetViewportY' = newTarget
           /\ scrollFired' = Fire(<<Floor(newTarget)>>)
           /\ IF sb > 0 THEN ShowScrollbar ELSE UNCHANGED scrollbarVars
           /\ UNCHANGED <<scrollAnimationStartTime, scrollAnimationStartY,
                          scrollAnimationFrame, animCallbackPending>>
      ELSE IF scrollAnimationFrame
      THEN /\ targetViewportY' = newTarget
           /\ scrollFired' = <<>>
           /\ UNCHANGED <<viewportY, scrollAnimationStartTime, scrollAnimationStartY,
                          scrollAnimationFrame, animCallbackPending, scrollbarVars>>
      ELSE /\ targetViewportY' = newTarget
           /\ ApplyAnimation(animateScroll(viewportY, newTarget, sb, smoothScrollDuration))
           /\ IF animateScroll(viewportY, newTarget, sb, smoothScrollDuration).running
              THEN scrollAnimationStartTime' = TRUE /\ scrollAnimationStartY' = <<viewportY>>
              ELSE scrollAnimationStartTime' = FALSE /\ scrollAnimationStartY' = Undefined

\* The animation-frame callback: Terminal.animateScroll
AnimateScrollFrame ==
  /\ UNCHANGED <<wheelCount, ivars, svars>>
  /\ animCallbackPending
  /\ call' = Call("animateScroll", 0)
  /\ dataFired' = <<>>
  /\ IF ~wasmTerm \/ ~scrollAnimationStartTime
     THEN /\ animCallbackPending' = FALSE
          /\ scrollFired' = <<>>
          /\ UNCHANGED <<viewportY, targetViewportY, scrollAnimationStartTime,
                         scrollAnimationStartY, scrollAnimationFrame, scrollbarVars>>
     ELSE /\ ApplyAnimation(animateScroll(viewportY, targetViewportY, getScrollbackLength,
                                          smoothScrollDuration))
          /\ IF animateScroll(viewportY, targetViewportY, getScrollbackLength,
                              smoothScrollDuration).running
             THEN UNCHANGED <<scrollAnimationStartTime, scrollAnimationStartY>>
             ELSE scrollAnimationStartTime' = FALSE /\ scrollAnimationStartY' = Undefined
          /\ UNCHANGED targetViewportY
  /\ UNCHANGED <<lifecycleVars, scrollbackLength, smoothScrollDuration>>

\* ------------------------------------------------------------ wheel events
DOM_DELTA_PIXEL == 0

DOM_DELTA_LINE == 1

DOM_DELTA_PAGE == 2

WheelEvents ==
  [deltaMode : {DOM_DELTA_PIXEL}, deltaY : {-40, 0, 10}]
    \cup {[deltaMode |-> DOM_DELTA_LINE, deltaY |-> 1], [deltaMode |-> DOM_DELTA_PAGE, deltaY |-> -1]}

\* Math.round(a / d) for d > 0: halves round up
JSRound(a, d) == (2 * a + d) \div (2 * d)

\* deltaLines of handleWheel, in fixed point
deltaLines(e) ==
  IF e.deltaMode = DOM_DELTA_PIXEL THEN RoundDiv(e.deltaY * Unit, LineHeightFallback)
  ELSE IF e.deltaMode = DOM_DELTA_LINE THEN e.deltaY * Unit
  ELSE IF e.deltaMode = DOM_DELTA_PAGE THEN e.deltaY * rows * Unit
  ELSE RoundDiv(e.deltaY * Unit, LegacyWheelDivisor)

\* the arrow-key sequences handleWheel sends on the alternate screen
wheelArrows(e) ==
  LET count == Min2(Abs(JSRound(e.deltaY, LegacyWheelDivisor)), MaxArrowsPerWheel)
  IN  [i \in 1..count |-> IF e.deltaY > 0 THEN "ESC[B" ELSE "ESC[A"]

\* any attached wheel handler stops the default handling, whatever it returns
wheelConsumed_AnyHandler(custom) == custom # "none"

\* `this.customWheelEventHandler && this.customWheelEventHandler(e)`: custom is
\* "none" when no handler is attached, else what the handler returns
wheelConsumed(custom) == custom = "true"

\* Terminal.handleWheel; custom: the custom wheel handler ("none" or its result);
\* altScreen: the engine reports the alternate screen
HandleWheel(e, custom, altScreen) ==
  /\ isOpen
  /\ wheelCount < MaxWheel
  /\ wheelCount' = wheelCount + 1
  /\ UNCHANGED <<ivars, svars>>
  /\ call' = Call("handleWheel", e.deltaY)
  /\ IF wheelConsumed(custom)
     THEN /\ scrollFired' = <<>>
          /\ dataFired' = <<>>
          /\ UNCHANGED <<viewportY, animVars, scrollbarVars>>
     ELSE IF altScreen
     THEN /\ scrollFired' = <<>>
          /\ dataFired' = Fire(wheelArrows(e))
          /\ UNCHANGED <<viewportY, animVars, scrollbarVars>>
     ELSE IF deltaLines(e) # 0
     THEN /\ smoothScrollTo(viewportY - deltaLines(e))
          /\ dataFired' = <<>>
     ELSE /\ scrollFired' = <<>>
          /\ dataFired' = <<>>
          /\ UNCHANGED <<viewportY, animVars, scrollbarVars>>
  /\ UNCHANGED <<lifecycleVars, scrollbackLength, smoothScrollDuration>>

\* the auto-hide timer armed by showScrollbar fires: hideScrollbar starts the
\* fade-out of a visible bar, whose first step requests an animation frame
ScrollbarHideTimer ==
  /\ UNCHANGED <<wheelCount, ivars, svars>>
  /\ scrollbarHideTimeout
  /\ scrollbarHideTimeout' = FALSE
  /\ fadeOutPending' = IF scrollbarVisible THEN TRUE ELSE fadeOutPending
  /\ UNCHANGED scrollbarVisible
  /\ call' = Call("hideScrollbar", 0)
  /\ scrollFired' = <<>>
  /\ dataFired' = <<>>
  /\ UNCHANGED <<lifecycleVars, scrollbackLength, smoothScrollDuration, viewportY, animVars>>

\* the frame that ends a fade-out (progress 1): the animate closure of
\* fadeOutScrollbar marks the bar hidden.  The frames before it change the
\* opacity only; the fade takes 200 ms and the hide timer 1500 ms, so fade-outs
\* do not overlap.  The closure tests neither isDisposed nor isOpen.
FadeOutFrame ==
  /\ UNCHANGED <<wheelCount, ivars, svars>>
  /\ fadeOutPending
  /\ fadeOutPending' = FALSE
  /\ scrollbarVisible' = FALSE
  /\ UNCHANGED scrollbarHideTimeout
  /\ call' = Call("fadeOutScrollbar", 0)
  /\ scrollFired' = <<>>
  /\ dataFired' = <<>>
  /\ UNCHANGED <<lifecycleVars, scrollbackLength, smoothScrollDuration, viewportY, animVars>>


\* --------------------------------------------------------------- selection
\* A cell of the screen: its code point ("NUL" for code point 0, else the
\* character) and its width (0 for the cell that follows a wide character)
Cell(codepoint, width) == [codepoint |-> codepoint, width |-> width]

\* a row of printed text with an empty last cell, a row that starts with a wide
\* character, and an empty row
LineChoices ==
  {[col \in 1..Cols |-> IF col = Cols THEN Cell("NUL", 1) ELSE Cell("a", 1)],
   [col \in 1..Cols |-> IF col = 1 THEN Cell("W", 2)
                        ELSE IF col = 2 THEN Cell("NUL", 0) ELSE Cell("c", 1)]}

BlankGrid == [row \in 1..Rows |-> BlankLine]

Grids == [1..Rows -> LineChoices]

\* GhosttyTerminal.getLine: null (here the empty sequence) outside the screen
getLine(y) == IF y < 0 \/ y >= rows THEN <<>> ELSE grid[y + 1]

\* a one-cell selection counts as no selection; C39 does not hold of it
hasSelection_MoreThanOneCell ==
  selectionStart # <<>> /\ selectionEnd # <<>> /\ selectionStart # selectionEnd

\* SelectionManager.hasSelection
hasSelection == selectionStart # <<>> /\ selectionEnd # <<>>

\* SelectionManager.normalizeSelection: <<>> (null) or <<coordinates>>
normalizeSelection ==
  IF selectionStart = <<>> \/ selectionEnd = <<>> THEN <<>>
  ELSE LET a == selectionStart[1]
           b == selectionEnd[1]
       IN  IF a.row > b.row \/ (a.row = b.row /\ a.col > b.col)
           THEN <<[startCol |-> b.col, startRow |-> b.row, endCol |-> a.col, endRow |-> a.row]>>
           ELSE <<[startCol |-> a.col, startRow |-> a.row, endCol |-> b.col, endRow |-> b.row]>>

\* the inner loop of getSelection: the text of line from column col to colEnd
RECURSIVE lineText(_, _, _)
lineText(line, col, colEnd) ==
  IF col > colEnd THEN <<>>
  ELSE IF col + 1 > Len(line) \/ line[col + 1].width = 0
  THEN lineText(line, col + 1, colEnd)
  ELSE <<IF line[col + 1].codepoint # "NUL" THEN line[col + 1].codepoint ELSE "SP">>
         \o lineText(line, col + 1, colEnd)

\* the outer loop of getSelection, from row on; a row the engine has no line
\* for is skipped by `continue`, the newline that follows it included
RECURSIVE rowsText(_, _)
rowsText(row, c) ==
  IF row > c.endRow THEN <<>>
  ELSE IF getLine(row) = <<>> THEN rowsText(row + 1, c)
  ELSE lineText(getLine(row), IF row = c.startRow THEN c.startCol ELSE 0,
                IF row = c.endRow THEN c.endCol ELSE Len(getLine(row)) - 1)
         \o (IF row < c.endRow THEN <<"LF">> ELSE <<>>)
         \o rowsText(row + 1, c)

\* SelectionManager.getSelection
getSelection ==
  IF normalizeSelection = <<>> THEN <<>>
  ELSE rowsText(normalizeSelection[1].startRow, normalizeSelection[1])

\* the selection state is touched by no operation of this step
SelectionUntouched == UNCHANGED <<selectionVars, selectionText>>

\* what an operation on the selection leaves alone
SelectionFrame ==
  UNCHANGED <<tvars, ivars, rows, grid, dragVars, managerWasmTerm, highlightedRows, copiedText,
              hoverVars>>

\* Terminal.getSelection
GetSelection ==
  /\ selectionText' = IF isOpen THEN getSelection ELSE <<>>
  /\ UNCHANGED selectionVars
  /\ SelectionFrame

\* a clearSelection that forgets the endpoints only; C20 does not hold of it
clearSelection_EndpointsOnly ==
  IF ~hasSelection
  THEN UNCHANGED selectionVars
  ELSE /\ previousSelection' = normalizeSelection
       /\ selectionStart' = <<>>
       /\ selectionEnd' = <<>>
       /\ UNCHANGED isSelecting

\* Terminal.clearSelection / SelectionManager.clearSelection
clearSelection ==
  IF ~hasSelection
  THEN UNCHANGED selectionVars
  ELSE /\ previousSelection' = normalizeSelection
       /\ selectionStart' = <<>>
       /\ selectionEnd' = <<>>
       /\ isSelecting' = FALSE

ClearSelection ==
  /\ IF isOpen THEN clearSelection ELSE UNCHANGED selectionVars
  /\ UNCHANGED selectionText
  /\ SelectionFrame

\* the rows in wasmTerm.getDimensions() as the SelectionManager sees them: an
\* engine freed by reset() keeps the rows it had
dimsRows == IF managerWasmTerm = <<>> THEN rows ELSE managerWasmTerm[1]

\* Terminal.selectAll / SelectionManager.selectAll
SelectAll ==
  /\ IF isOpen
     THEN /\ selectionStart' = <<[col |-> 0, row |-> 0]>>
          /\ selectionEnd' = <<[col |-> Cols - 1, row |-> dimsRows - 1]>>
          /\ UNCHANGED <<isSelecting, previousSelection>>
     ELSE UNCHANGED selectionVars
  /\ UNCHANGED selectionText
  /\ SelectionFrame

\* Terminal.select / SelectionManager.select
\* the end cell select() computes: the start clamped to the grid, the length
\* wrapped at the column count, the end clamped again
selectEnd(column, row, length) ==
  LET r0 == Max2(0, Min2(row, dimsRows - 1))
      c0 == Max2(0, Min2(column, Cols - 1))
      last == c0 + length - 1
      endRow == IF last >= Cols THEN r0 + (last \div Cols) ELSE r0
      endCol == IF last >= Cols THEN last % Cols ELSE last
  IN  [col |-> Max2(0, Min2(endCol, Cols - 1)), row |-> Min2(endRow, dimsRows - 1)]

Select(column, row, length) ==
  /\ IF isOpen
     THEN /\ selectionStart' = <<[col |-> Max2(0, Min2(column, Cols - 1)),
                                  row |-> Max2(0, Min2(row, dimsRows - 1))]>>
          /\ selectionEnd' = <<selectEnd(column, row, length)>>
          /\ UNCHANGED <<isSelecting, previousSelection>>
     ELSE UNCHANGED selectionVars
  /\ UNCHANGED selectionText
  /\ SelectionFrame

\* Terminal.selectLines / SelectionManager.selectLines
SelectLines(start, end) ==
  LET s0 == Max2(0, Min2(start, dimsRows - 1))
      e0 == Max2(0, Min2(end, dimsRows - 1))
  IN  /\ IF isOpen
         THEN /\ selectionStart' = <<[col |-> 0, row |-> Min2(s0, e0)]>>
              /\ selectionEnd' = <<[col |-> Cols - 1, row |-> Max2(s0, e0)]>>
              /\ UNCHANGED <<isSelecting, previousSelection>>
         ELSE UNCHANGED selectionVars
      /\ UNCHANGED selectionText
      /\ SelectionFrame

\* Terminal.resize: the engine's screen gets its new height, rows that remain
\* keep their cells; the selection is left as it is
Resize(newRows) ==
  /\ UNCHANGED <<wheelCount, ivars, selectionVars, selectionText, dragVars, managerWasmTerm,
                 highlightedRows, copiedText,
                 hoverVars>>
  /\ dataFired' = <<>>
  /\ scrollFired' = <<>>
  /\ IF ~assertOpen
     THEN call' = Threw("resize", newRows) /\ UNCHANGED <<rows, grid>>
     ELSE /\ call' = Call("resize", newRows)
          /\ rows' = newRows
          /\ grid' = [row \in 1..newRows |-> IF row <= Len(grid) THEN grid[row] ELSE BlankLine]
  /\ UNCHANGED <<lifecycleVars, scrollbackLength, smoothScrollDuration, viewportY, animVars,
                 scrollbarVars>>

\* ------------------------------------------------------------ InputHandler
\* A string is the tuple of its characters; control characters carry their
\* names ("CR", "LF", "HT", "DEL", "ESC").  null is the empty tuple: no de-dup
\* record ever holds the empty string, and the code tests records by truthiness.
Null == <<>>

BEFORE_INPUT_IGNORE_MS == 100

BracketedPasteStart == <<"ESC", "[", "2", "0", "0", "~">>

BracketedPasteEnd == <<"ESC", "[", "2", "0", "1", "~">>

\* String.replace(/\n/g, '\r')
RECURSIVE ReplaceNewlines(_)
ReplaceNewlines(str) ==
  IF str = <<>> THEN <<>>
  ELSE <<IF Head(str) = "LF" THEN "CR" ELSE Head(str)>> \o ReplaceNewlines(Tail(str))

\* the entries of KEY_MAP for the key codes delivered here; a Key is named by its code
KEY_MAP ==
  {"KeyA", "KeyC", "KeyV", "Enter", "Escape", "Backspace", "Tab",
   "F1", "F2", "F3", "F4", "F5", "F6", "F7", "F8", "F9", "F10", "F11", "F12",
   "Insert", "Home", "PageUp", "Delete", "End", "PageDown", "ArrowUp"}

NoKey == "null"

\* a key map that knows every code; C25 does not hold of it
mapKeyCode_EveryCode(code) == code

\* InputHandler.mapKeyCode
mapKeyCode(code) == IF code \in KEY_MAP THEN code ELSE NoKey

\* InputHandler.extractModifiers
extractModifiers(event) ==
  (IF event.shiftKey THEN {"SHIFT"} ELSE {}) \cup (IF event.ctrlKey THEN {"CTRL"} ELSE {})
    \cup (IF event.altKey THEN {"ALT"} ELSE {}) \cup (IF event.metaKey THEN {"SUPER"} ELSE {})

\* InputHandler.isPrintableCharacter
isPrintableCharacter(event) ==
  /\ ~(event.ctrlKey /\ ~event.altKey)
  /\ ~(event.altKey /\ ~event.ctrlKey)
  /\ ~event.metaKey
  /\ Len(event.key) = 1

\* a switch that knows the four control keys only; C10 does not hold of it
simpleOutput_ControlKeysOnly(key) ==
  CASE key = "Enter" -> <<"CR">>
    [] key = "Tab" -> <<"HT">>
    [] key = "Backspace" -> <<"DEL">>
    [] key = "Escape" -> <<"ESC">>
    [] OTHER -> <<>>

\* the simpleOutput switch of handleKeyDown
simpleOutput(key) ==
  CASE key = "Enter" -> <<"CR">>
    [] key = "Tab" -> <<"HT">>
    [] key = "Backspace" -> <<"DEL">>
    [] key = "Escape" -> <<"ESC">>
    [] key = "Home" -> <<"ESC", "[", "H">>
    [] key = "End" -> <<"ESC", "[", "F">>
    [] key = "Insert" -> <<"ESC", "[", "2", "~">>
    [] key = "Delete" -> <<"ESC", "[", "3", "~">>
    [] key = "PageUp" -> <<"ESC", "[", "5", "~">>
    [] key = "PageDown" -> <<"ESC", "[", "6", "~">>
    [] key = "F1" -> <<"ESC", "O", "P">>
    [] key = "F2" -> <<"ESC", "O", "Q">>
    [] key = "F3" -> <<"ESC", "O", "R">>
    [] key = "F4" -> <<"ESC", "O", "S">>
    [] key = "F5" -> <<"ESC", "[", "1", "5", "~">>
    [] key = "F6" -> <<"ESC", "[", "1", "7", "~">>
    [] key = "F7" -> <<"ESC", "[", "1", "8", "~">>
    [] key = "F8" -> <<"ESC", "[", "1", "9", "~">>
    [] key = "F9" -> <<"ESC", "[", "2", "0", "~">>
    [] key = "F10" -> <<"ESC", "[", "2", "1", "~">>
    [] key = "F11" -> <<"ESC", "[", "2", "3", "~">>
    [] key = "F12" -> <<"ESC", "[", "2", "4", "~">>
    [] OTHER -> Null

\* a paste that never asks for the mode; C17 does not hold of it
emitPasteData_Raw(text, hasBracketedPaste) == <<text>>

\* the payloads emitPasteData hands to onData
emitPasteData(text, hasBracketedPaste) ==
  IF hasBracketedPaste
  THEN <<BracketedPasteStart \o text \o BracketedPasteEnd>>
  ELSE <<text>>

\* a window that includes its end point; C6 does not hold of it
IsFresh_Inclusive(t, recordedAt) == t - recordedAt <= BEFORE_INPUT_IGNORE_MS

\* now - lastXTime < InputHandler.BEFORE_INPUT_IGNORE_MS
IsFresh(t, recordedAt) == t - recordedAt < BEFORE_INPUT_IGNORE_MS

\* the value returned by shouldIgnoreBeforeInput (it also clears lastKeyDownData)
shouldIgnoreBeforeInput(data) ==
  /\ lastKeyDownData # Null
  /\ IsFresh(now, lastKeyDownTime)
  /\ lastKeyDownData = data

\* the value returned by shouldIgnoreBeforeInputFromComposition
shouldIgnoreBeforeInputFromComposition(data) ==
  /\ lastCompositionData # Null
  /\ IsFresh(now, lastCompositionTime)
  /\ lastCompositionData = data

\* the value returned by shouldIgnoreCompositionEnd
shouldIgnoreCompositionEnd(data) ==
  /\ lastBeforeInputData # Null
  /\ IsFresh(now, lastBeforeInputTime)
  /\ lastBeforeInputData = data

\* no paste de-duplication at all; C5 does not hold of it
shouldIgnorePasteEvent_Never(data, source) == FALSE

\* paste de-duplication that ignores where the record came from; C7 does not
\* hold of it
shouldIgnorePasteEvent_AnySource(data, source) ==
  /\ lastPasteData # Null
  /\ now - lastPasteTime < BEFORE_INPUT_IGNORE_MS
  /\ lastPasteData = data

\* the value returned by shouldIgnorePasteEvent
shouldIgnorePasteEvent(data, source) ==
  /\ lastPasteData # Null
  /\ lastPasteSource # source
  /\ IsFresh(now, lastPasteTime)
  /\ lastPasteData = data

\* InputHandler.recordKeyDownData
recordKeyDownData(data) ==
  /\ lastKeyDownData' = data
  /\ lastKeyDownTime' = now
  /\ unmatchedKeyDown' = data

\* InputHandler.recordPasteData
recordPasteData(data, source) ==
  /\ lastPasteData' = data
  /\ lastPasteTime' = now
  /\ lastPasteSource' = source

\* InputHandler.recordBeforeInputData
recordBeforeInputData(data) ==
  /\ lastBeforeInputData' = data
  /\ lastBeforeInputTime' = now

\* InputHandler.recordCompositionData
recordCompositionData(data) ==
  /\ lastCompositionData' = data
  /\ lastCompositionTime' = now

\* ev: the record of one delivered event.  path, code, key, mods, inputType,
\* data, flagged (event.isComposing or keyCode 229) and handled (the custom key
\* handler's answer) describe the event; composing, disposed and time the
\* handler when it arrived; payload is the output the event maps to, out the
\* onData emissions, suppressedBy the de-dup record that swallowed it, onKey
\* whether onKeyCallback ran, encoder what the key encoder was asked,
\* prevented whether preventDefault was called, repeats whether the event
\* equals the one delivered just before it ("emitted" / "silent": what that one
\* did), custom the custom key handler's presence and answer, callbacks the
\* callbacks the handler invoked, in order, and mode2004 what the engine
\* answered when the handler asked for the bracketed-paste mode.
NoEvent ==
  [path |-> "none", code |-> "", key |-> "", mods |-> {}, inputType |-> "",
   data |-> <<>>, flagged |-> FALSE, handled |-> FALSE, composing |-> FALSE,
   disposed |-> FALSE, time |-> 0, payload |-> <<>>, out |-> <<>>,
   suppressedBy |-> "none", onKey |-> FALSE, encoder |-> "unused", prevented |-> FALSE,
   repeats |-> "no", custom |-> "none", callbacks |-> <<>>, mode2004 |-> "unqueried"]

Delivered(path) ==
  [NoEvent EXCEPT !.path = path, !.time = now,
                  !.composing = isComposing, !.disposed = handlerDisposed]

\* d describes the same event as the one delivered before it
Repeats(d) ==
  /\ d.path = ev.path /\ d.code = ev.code /\ d.key = ev.key /\ d.mods = ev.mods
  /\ d.inputType = ev.inputType /\ d.data = ev.data /\ d.flagged = ev.flagged
  /\ d.handled = ev.handled /\ d.custom = ev.custom

Marked(d) ==
  [d EXCEPT !.repeats = IF ~Repeats(d) THEN "no"
                        ELSE IF ev.out # <<>> THEN "emitted" ELSE "silent"]

\* the handler emitted payload through onDataCallback
Emitted(d, payload) ==
  [d EXCEPT !.payload = payload, !.out = <<payload>>, !.prevented = TRUE,
            !.callbacks = d.callbacks \o <<"onData">>]

\* the outcomes of KeyEncoder.encode: it throws, or returns bytes (possibly none)
EncoderOutcomes ==
  {[throws |-> TRUE, data |-> <<>>], [throws |-> FALSE, data |-> <<>>],
   [throws |-> FALSE, data |-> <<"ESC", "[", "A">>]}

\* a composition guard that trusts the handler's own flag only; C11 does not
\* hold of it
duringComposition_FlagOnly(event) == isComposing

\* the composition guard of handleKeyDown
duringComposition(event) == isComposing \/ event.isComposing \/ event.keyCode = 229

\* the answers of the custom key handler: none is attached, or the attached one
\* returns false or true
CustomHandlers == {"none", "false", "true"}

\* One run of handleKeyDown past its disposal guard.  custom: the custom key
\* handler (see CustomHandlers); encoded: what KeyEncoder.encode does if it is
\* asked; copied: what the copy hook answers if it is asked.  The result is the
\* record of the event and the payload handed to recordKeyDownData (Null: none).
keyDownOutcome(event, custom, encoded, copied) ==
  LET d == Marked([Delivered("keydown") EXCEPT
                     !.code = event.code, !.key = event.key,
                     !.mods = extractModifiers(event),
                     !.flagged = event.isComposing \/ event.keyCode = 229,
                     !.custom = custom, !.handled = (custom = "true")])
      seen == [d EXCEPT !.onKey = TRUE,
                        !.callbacks = IF custom = "none" THEN <<"onKey">>
                                      ELSE <<"onKey", "customKeyEventHandler">>]
      key == mapKeyCode(event.code)
      Silent(e) == [ev |-> e, record |-> Null]
      Sent(e, payload) == [ev |-> Emitted(e, payload), record |-> payload]
  IN  IF handlerDisposed \/ duringComposition(event)
      THEN Silent(d)
      ELSE IF custom = "true"
      THEN Silent([seen EXCEPT !.prevented = TRUE])
      ELSE IF (event.ctrlKey \/ event.metaKey) /\ event.code = "KeyV"
      THEN Silent(seen)
      ELSE IF event.metaKey /\ event.code = "KeyC"
      THEN Silent([seen EXCEPT !.prevented = copied])
      ELSE IF isPrintableCharacter(event)
      THEN Sent(seen, <<event.key>>)
      ELSE IF key = NoKey
      THEN Silent(seen)
      ELSE IF extractModifiers(event) \subseteq {"SHIFT"} /\ simpleOutput(key) # Null
      THEN Sent(seen, simpleOutput(key))
      ELSE IF encoded.throws
      THEN Silent([seen EXCEPT !.encoder = "threw"])
      ELSE IF encoded.data # <<>>
      THEN Sent([seen EXCEPT !.encoder = "encoded"], encoded.data)
      ELSE Silent([seen EXCEPT !.encoder = "encoded", !.prevented = TRUE])

\* InputHandler.handleKeyDown
HandleKeyDown(event, custom) ==
  /\ UNCHANGED <<tvars, svars, now, handlerDisposed, inputListeners, isComposing, pasteVars, compositionVars,
                 beforeInputVars>>
  /\ \E r \in {keyDownOutcome(event, custom, encoded, copied) :
                  encoded \in EncoderOutcomes, copied \in BOOLEAN} :
       /\ ev' = r.ev
       /\ IF r.record # Null THEN recordKeyDownData(r.record) ELSE UNCHANGED keyDownVars

\* InputHandler.handlePaste; hasClipboardData: event.clipboardData is present;
\* text: clipboardData.getData('text/plain')
HandlePaste(hasClipboardData, text) ==
  LET d == Marked([Delivered("paste") EXCEPT
                     !.data = IF hasClipboardData THEN text ELSE <<>>])
      seen == [d EXCEPT !.prevented = TRUE]
  IN  /\ UNCHANGED <<tvars, svars, now, handlerDisposed, inputListeners, isComposing, keyDownVars, compositionVars,
                     beforeInputVars>>
      /\ IF handlerDisposed
         THEN ev' = d /\ UNCHANGED pasteVars
         ELSE IF ~hasClipboardData \/ text = <<>>
         THEN ev' = seen /\ UNCHANGED pasteVars
         ELSE IF shouldIgnorePasteEvent(text, "paste")
         THEN /\ ev' = [seen EXCEPT !.payload = text, !.suppressedBy = "paste"]
              /\ lastPasteData' = Null
              /\ lastPasteSource' = "null"
              /\ UNCHANGED lastPasteTime
         ELSE /\ \E hasBracketedPaste \in BOOLEAN :
                   ev' = [seen EXCEPT !.payload = text,
                                      !.mode2004 = IF hasBracketedPaste THEN "on" ELSE "off",
                                      !.out = emitPasteData(text, hasBracketedPaste)]
              /\ recordPasteData(text, "paste")

\* the output handleBeforeInput derives from inputType and data (null: none)
beforeInputOutput(inputType, data) ==
  CASE inputType \in {"insertText", "insertReplacementText"} ->
         IF Len(data) > 0 THEN ReplaceNewlines(data) ELSE Null
    [] inputType \in {"insertLineBreak", "insertParagraph"} -> <<"CR">>
    [] inputType = "deleteContentBackward" -> <<"DEL">>
    [] inputType = "deleteContentForward" -> <<"ESC", "[", "3", "~">>
    [] OTHER -> Null

\* InputHandler.handleBeforeInput; data: event.data ?? ''
HandleBeforeInput(inputType, data, eventIsComposing) ==
  LET d == Marked([Delivered("beforeinput") EXCEPT
                     !.inputType = inputType, !.data = data, !.flagged = eventIsComposing])
      seen == [d EXCEPT !.prevented = TRUE]
      output == beforeInputOutput(inputType, data)
  IN  /\ UNCHANGED <<tvars, svars, now, handlerDisposed, inputListeners, isComposing>>
      /\ IF handlerDisposed \/ isComposing \/ eventIsComposing
         THEN /\ ev' = d
              /\ UNCHANGED <<keyDownVars, pasteVars, compositionVars, beforeInputVars>>
         ELSE IF inputType = "insertFromPaste"
         THEN /\ UNCHANGED <<keyDownVars, compositionVars, beforeInputVars>>
              /\ IF data = <<>>
                 THEN ev' = d /\ UNCHANGED pasteVars
                 ELSE IF shouldIgnorePasteEvent(data, "beforeinput")
                 THEN /\ ev' = [seen EXCEPT !.payload = data, !.suppressedBy = "paste"]
                      /\ lastPasteData' = Null
                      /\ lastPasteSource' = "null"
                      /\ UNCHANGED lastPasteTime
                 ELSE /\ \E hasBracketedPaste \in BOOLEAN :
                           ev' = [seen EXCEPT !.payload = data,
                                              !.mode2004 = IF hasBracketedPaste THEN "on" ELSE "off",
                                              !.out = emitPasteData(data, hasBracketedPaste)]
                      /\ recordPasteData(data, "beforeinput")
         ELSE IF output = Null
         THEN /\ ev' = d
              /\ UNCHANGED <<keyDownVars, pasteVars, compositionVars, beforeInputVars>>
         ELSE /\ UNCHANGED <<pasteVars, lastKeyDownTime>>
              /\ lastKeyDownData' = Null
              /\ unmatchedKeyDown' = IF output = unmatchedKeyDown THEN Null ELSE unmatchedKeyDown
              /\ IF shouldIgnoreBeforeInput(output)
                 THEN /\ ev' = [seen EXCEPT !.payload = output, !.suppressedBy = "keydown"]
                      /\ UNCHANGED <<compositionVars, beforeInputVars>>
                 ELSE IF data # <<>> /\ shouldIgnoreBeforeInputFromComposition(data)
                 THEN /\ ev' = [seen EXCEPT !.payload = output, !.suppressedBy = "composition"]
                      /\ lastCompositionData' = Null
                      /\ UNCHANGED <<lastCompositionTime, beforeInputVars>>
                 ELSE /\ ev' = Emitted(d, output)
                      /\ UNCHANGED compositionVars
                      /\ IF data # <<>>
                         THEN recordBeforeInputData(data)
                         ELSE UNCHANGED beforeInputVars

\* InputHandler.handleCompositionStart
HandleCompositionStart ==
  /\ ev' = Delivered("compositionstart")
  /\ isComposing' = IF handlerDisposed THEN isComposing ELSE TRUE
  /\ UNCHANGED <<tvars, svars, now, handlerDisposed, inputListeners, keyDownVars, pasteVars, compositionVars,
                 beforeInputVars>>

\* InputHandler.handleCompositionUpdate
HandleCompositionUpdate ==
  /\ ev' = Delivered("compositionupdate")
  /\ UNCHANGED <<tvars, svars, now, handlerDisposed, inputListeners, isComposing, keyDownVars, pasteVars,
                 compositionVars, beforeInputVars>>

\* InputHandler.handleCompositionEnd
HandleCompositionEnd(data) ==
  LET d == Marked([Delivered("compositionend") EXCEPT !.data = data])
  IN  /\ UNCHANGED <<tvars, svars, now, handlerDisposed, inputListeners, keyDownVars, pasteVars>>
      /\ IF handlerDisposed
         THEN ev' = d /\ UNCHANGED <<isComposing, compositionVars, beforeInputVars>>
         ELSE /\ isComposing' = FALSE
              /\ IF data = <<>>
                 THEN ev' = d /\ UNCHANGED <<compositionVars, beforeInputVars>>
                 ELSE IF shouldIgnoreCompositionEnd(data)
                 THEN /\ ev' = [d EXCEPT !.payload = data, !.suppressedBy = "beforeinput"]
                      /\ lastBeforeInputData' = Null
                      /\ UNCHANGED <<lastBeforeInputTime, compositionVars>>
                 ELSE /\ ev' = [d EXCEPT !.payload = data, !.out = <<data>>]
                      /\ recordCompositionData(data)
                      /\ UNCHANGED beforeInputVars

\* the listeners InputHandler.attach registers, the handler being given an input
\* element of its own
AttachedListeners ==
  {<<"container", "keydown">>, <<"container", "paste">>, <<"inputElement", "paste">>,
   <<"inputElement", "beforeinput">>, <<"container", "compositionstart">>,
   <<"container", "compositionupdate">>, <<"container", "compositionend">>}

\* a dispose that forgets the input element; C12 does not hold of it
RemovedByDispose_ContainerOnly ==
  {<<"container", "keydown">>, <<"container", "keypress">>, <<"container", "paste">>,
   <<"container", "compositionstart">>, <<"container", "compositionupdate">>,
   <<"container", "compositionend">>}

\* the removeEventListener calls of dispose; the keypress listener is never
\* created, so its removal is skipped
RemovedByDispose ==
  {<<"container", "keydown">>, <<"container", "paste">>, <<"inputElement", "paste">>,
   <<"inputElement", "beforeinput">>, <<"container", "compositionstart">>,
   <<"container", "compositionupdate">>, <<"container", "compositionend">>}

\* InputHandler.isActive
isActive == ~handlerDisposed

\* InputHandler.dispose
InputDispose ==
  /\ ev' = Delivered("dispose")
  /\ IF handlerDisposed
     THEN UNCHANGED <<handlerDisposed, inputListeners>>
     ELSE /\ inputListeners' = inputListeners \ RemovedByDispose
          /\ handlerDisposed' = TRUE
  /\ UNCHANGED <<tvars, svars, now, isComposing, keyDownVars, pasteVars, compositionVars,
                 beforeInputVars>>

\* time passes between two events
Tick ==
  /\ now + TickMs <= MaxNow
  /\ now' = now + TickMs
  /\ UNCHANGED <<tvars, svars, handlerDisposed, inputListeners, isComposing, keyDownVars, pasteVars,
                 compositionVars, beforeInputVars, ev>>

\* ------------------------------------------------------- events delivered
KeyEvent(code, key, shift, ctrl, alt, meta) ==
  [code |-> code, key |-> key, shiftKey |-> shift, ctrlKey |-> ctrl, altKey |-> alt,
   metaKey |-> meta, isComposing |-> FALSE, keyCode |-> 0]

\* the keys of the simpleOutput switch; their KeyboardEvent.key equals their code
SpecialCodes ==
  {"Enter", "Tab", "Backspace", "Escape", "Home", "End", "Insert", "Delete", "PageUp",
   "PageDown", "F1", "F2", "F3", "F4", "F5", "F6", "F7", "F8", "F9", "F10", "F11", "F12"}

KeyEvents ==
  {KeyEvent(code, code, shift, FALSE, FALSE, FALSE) : code \in SpecialCodes, shift \in BOOLEAN}
    \cup {KeyEvent(code, code, FALSE, TRUE, FALSE, FALSE) : code \in {"Enter", "F1", "ArrowUp"}}
    \cup {KeyEvent("ArrowUp", "ArrowUp", FALSE, FALSE, FALSE, FALSE),
          KeyEvent("Unidentified", "Unidentified", FALSE, FALSE, FALSE, FALSE),
          KeyEvent("KeyA", "a", FALSE, FALSE, FALSE, FALSE),
          KeyEvent("KeyA", "A", TRUE, FALSE, FALSE, FALSE),
          KeyEvent("KeyA", "a", FALSE, TRUE, FALSE, FALSE),
          KeyEvent("KeyA", "a", FALSE, FALSE, TRUE, FALSE),
          KeyEvent("KeyA", "@", FALSE, TRUE, TRUE, FALSE),
          KeyEvent("KeyV", "v", FALSE, TRUE, FALSE, FALSE),
          KeyEvent("KeyV", "v", FALSE, FALSE, FALSE, TRUE),
          KeyEvent("KeyC", "c", FALSE, FALSE, FALSE, TRUE),
          KeyEvent("KeyC", "c", FALSE, TRUE, FALSE, FALSE),
          [KeyEvent("Enter", "Enter", FALSE, FALSE, FALSE, FALSE) EXCEPT !.isComposing = TRUE],
          [KeyEvent("Enter", "Process", FALSE, FALSE, FALSE, FALSE) EXCEPT !.keyCode = 229]}

\* the keys that have a beforeinput counterpart
TypingKeyEvents ==
  {KeyEvent("KeyA", "a", FALSE, FALSE, FALSE, FALSE),
   KeyEvent("Enter", "Enter", FALSE, FALSE, FALSE, FALSE)}

\* texts pasted or committed by an input method
Texts == {<<"a">>}

\* event.data of a beforeinput event
InputData == {<<>>, <<"a">>}

InputTypes ==
  {"insertText", "insertLineBreak", "insertFromPaste", "historyUndo"}

\* ------------------------------------------- further Terminal mutators
\* Terminal.writeln: write() of the data with CR LF appended
Writeln(grow, respond, screen) == Write(grow, respond, screen)

\* what a method that only emits data, or only throws, leaves alone
ViewportUntouched ==
  /\ scrollFired' = <<>>
  /\ UNCHANGED <<wheelCount, ivars, lifecycleVars, scrollbackLength, smoothScrollDuration,
                 viewportY, animVars, scrollbarVars>>

\* the onData callback Terminal.open hands to the InputHandler: what reaches
\* the onData listeners of data the handler emits for a key, paste, beforeinput
\* or composition event
inputHandlerOnData(data, disableStdin) ==
  IF disableStdin THEN <<>> ELSE Fire(<<data>>)

\* Terminal.paste; disableStdin: the option of that name; bracketed: the engine
\* reports bracketed-paste mode
Paste(data, disableStdin, bracketed) ==
  /\ call' = IF assertOpen THEN Call("paste", 0) ELSE Threw("paste", 0)
  /\ dataFired' = IF ~assertOpen \/ disableStdin THEN <<>>
                  ELSE IF bracketed
                  THEN Fire(<<BracketedPasteStart \o data \o BracketedPasteEnd>>)
                  ELSE Fire(<<data>>)
  /\ ViewportUntouched
  /\ UNCHANGED svars

\* Terminal.input: without wasUserInput the data is written to the terminal
Input(data, wasUserInput, disableStdin) ==
  IF assertOpen /\ ~disableStdin /\ ~wasUserInput
  THEN Write(0, FALSE, grid)
  ELSE /\ call' = IF assertOpen THEN Call("input", 0) ELSE Threw("input", 0)
       /\ dataFired' = IF assertOpen /\ ~disableStdin THEN Fire(<<data>>) ELSE <<>>
       /\ ViewportUntouched
       /\ UNCHANGED svars

\* Terminal.clear: the engine clears its screen; the viewport is not touched
Clear ==
  /\ call' = IF assertOpen THEN Call("clear", 0) ELSE Threw("clear", 0)
  /\ dataFired' = <<>>
  /\ ViewportUntouched
  /\ grid' = IF assertOpen THEN [row \in 1..rows |-> BlankLine] ELSE grid
  /\ UNCHANGED <<rows, selectionVars, selectionText, dragVars, managerWasmTerm, highlightedRows,
                 copiedText, hoverVars>>

\* ---------------------------------------------------------------- mouse
ScrollbarWidth == 8

\* the gap between the scrollbar and the right edge of the canvas
ScrollbarGap == 4

ScrollbarPadding == 4

MinThumbHeight == 20

canvasWidth == Cols * CellWidth

canvasHeight == rows * CellHeight

scrollbarTrackHeight == canvasHeight - 2 * ScrollbarPadding

\* thumbHeight * totalLines, for a scrollback of sb lines
thumbHeightTimesTotal(sb) ==
  Max2(MinThumbHeight * (sb + rows), rows * scrollbarTrackHeight)

\* (scrollbarTrackHeight - thumbHeight) * totalLines
thumbTravelTimesTotal(sb) == scrollbarTrackHeight * (sb + rows) - thumbHeightTimesTotal(sb)

\* the x test of handleMouseDown: the pointer is in the scrollbar's column
inScrollbar(mouseX) ==
  LET scrollbarX == canvasWidth - ScrollbarWidth - ScrollbarGap
  IN  mouseX >= scrollbarX /\ mouseX <= scrollbarX + ScrollbarWidth

\* the y test of handleMouseDown, mouseY >= thumbY /\ mouseY <= thumbY + thumbHeight,
\* every term multiplied by totalLines * scrollbackLength * Unit
onThumb(mouseY, vy, sb) ==
  LET D == (sb + rows) * sb * Unit
      top == thumbTravelTimesTotal(sb) * (sb * Unit - vy)
      height == thumbHeightTimesTotal(sb) * sb * Unit
      y == (mouseY - ScrollbarPadding) * D
  IN  y >= top /\ y <= top + height

\* the line a click on the track jumps to
trackTarget(mouseY, sb) ==
  Clamp(sb, JSRound((scrollbarTrackHeight - (mouseY - ScrollbarPadding)) * sb,
                    scrollbarTrackHeight))

\* the offset processScrollbarDrag asks scrollToLine for
dragTarget(mouseY, sb) ==
  LET deltaY == mouseY - scrollbarDragStart[1]
      viewportDelta == JSRound(-deltaY * (sb + rows) * sb, thumbTravelTimesTotal(sb))
  IN  Clamp(Lines(sb), scrollbarDragStartViewportY + Lines(viewportDelta))

\* SelectionManager.pixelToCell
pixelToCell(x, y) ==
  [col |-> Clamp(Cols - 1, x \div CellWidth), row |-> Clamp(rows - 1, y \div CellHeight)]

\* what a mouse event leaves alone
MouseFrame ==
  /\ dataFired' = <<>>
  /\ UNCHANGED <<wheelCount, ivars, lifecycleVars, scrollbackLength, smoothScrollDuration,
                 animVars, rows, grid, managerWasmTerm, highlightedRows>>

\* a mousedown on the canvas: Terminal.handleMouseDown on the parent, capturing,
\* then, unless that stopped the event, the SelectionManager's listener on the
\* canvas
MouseDown(button, mouseX, mouseY) ==
  /\ isOpen
  /\ call' = Call("handleMouseDown", button)
  /\ MouseFrame
  /\ UNCHANGED <<selectionText, hoverVars>>
  /\ copiedText' = IF button = 0 /\ ~(wasmTerm /\ scrollbackLength > 0 /\ inScrollbar(mouseX))
                   THEN <<>> ELSE copiedText
  /\ IF wasmTerm /\ scrollbackLength > 0 /\ inScrollbar(mouseX)
     THEN /\ UNCHANGED selectionVars
          /\ IF onThumb(mouseY, viewportY, scrollbackLength)
             THEN /\ isDraggingScrollbar' = TRUE
                  /\ scrollbarDragStart' = <<mouseY>>
                  /\ scrollbarDragStartViewportY' = viewportY
                  /\ scrollFired' = <<>>
                  /\ UNCHANGED <<viewportY, scrollbarVars>>
             ELSE /\ Apply(scrollToLine(viewportY, scrollbackLength,
                                        trackTarget(mouseY, scrollbackLength)))
                  /\ UNCHANGED dragVars
     ELSE /\ scrollFired' = <<>>
          /\ UNCHANGED <<viewportY, scrollbarVars, dragVars>>
          /\ IF button = 0
             THEN /\ previousSelection' = IF hasSelection THEN normalizeSelection
                                          ELSE previousSelection
                  /\ selectionStart' = <<pixelToCell(mouseX, mouseY)>>
                  /\ selectionEnd' = <<pixelToCell(mouseX, mouseY)>>
                  /\ isSelecting' = TRUE
             ELSE UNCHANGED selectionVars

\* the interval of the hover throttle, in ms
MouseMoveThrottleMs == 16

\* the most link lookups in flight at a time
MaxLookups == 2

\* Math.max(0, Math.floor(viewportY)), in lines
flooredViewportY(rawViewportY) == Max2(0, Floor(rawViewportY)) \div Unit

\* Terminal.processMouseMove, the line under the pointer: a line of the
\* scrollback or a row of the screen
hoverLine(viewportRow, rawViewportY, sb) ==
  LET vy == flooredViewportY(rawViewportY)
  IN  IF vy > 0
      THEN IF viewportRow < vy
           THEN [from |-> "scrollback", line |-> sb - vy + viewportRow]
           ELSE [from |-> "screen", line |-> viewportRow - vy]
      ELSE [from |-> "screen", line |-> viewportRow]

\* Terminal.processMouseMove, the row it asks the link detector about
hoverBufferRow(viewportRow, rawViewportY, sb) ==
  LET vy == flooredViewportY(rawViewportY)
  IN  IF vy > 0
      THEN IF viewportRow < vy
           THEN sb - vy + viewportRow
           ELSE sb + (viewportRow - vy)
      ELSE sb + viewportRow

\* LinkDetector.getLinkAt with a provider that reports every row of the screen
\* holding text as one link: the link, named by its buffer row, or none
getLinkAt(x, bufferRow) ==
  LET screenRow == bufferRow - scrollbackLength
  IN  IF /\ x >= 0 /\ x < Cols
         /\ screenRow >= 0 /\ screenRow < rows
         /\ grid[screenRow + 1] # BlankLine
      THEN <<bufferRow>>
      ELSE <<>>

\* the link under the pointer at position
linkUnder(position) ==
  getLinkAt(position[1] \div CellWidth,
            hoverBufferRow(position[2] \div CellHeight, viewportY, scrollbackLength))

\* Terminal.processMouseMove: the call is recorded with the position it
\* received, and a lookup of the link under it is started
processMouseMove(position) ==
  /\ Len(linkLookups) < MaxLookups
  /\ hoverRuns' = <<position>>
  /\ hoverAge' = <<0>>
  /\ linkLookups' = Append(linkLookups, [link |-> linkUnder(position), stale |-> FALSE])

\* a throttle that drops the events arriving while the timer is armed; C32
\* does not hold of it
throttledMouseMove_Dropping(position) ==
  IF mouseMoveThrottleTimeout # <<>>
  THEN /\ hoverRuns' = <<>>
       /\ UNCHANGED <<mouseMoveThrottleTimeout, pendingMouseMove, hoverAge, linkLookups>>
  ELSE /\ processMouseMove(position)
       /\ mouseMoveThrottleTimeout' = <<MouseMoveThrottleMs>>
       /\ UNCHANGED pendingMouseMove

\* Terminal.handleMouseMove after the scrollbar-drag test: the event waits for
\* the timer when one is armed, else it is processed and arms the timer
throttledMouseMove(position) ==
  IF mouseMoveThrottleTimeout # <<>>
  THEN /\ pendingMouseMove' = <<position>>
       /\ hoverRuns' = <<>>
       /\ UNCHANGED <<mouseMoveThrottleTimeout, hoverAge, linkLookups>>
  ELSE /\ processMouseMove(position)
       /\ mouseMoveThrottleTimeout' = <<MouseMoveThrottleMs>>
       /\ UNCHANGED pendingMouseMove

\* a mousemove over the canvas: the SelectionManager's listener on the canvas,
\* then Terminal.handleMouseMove on the parent
MouseMove(mouseX, mouseY) ==
  /\ isOpen
  /\ call' = Call("handleMouseMove", 0)
  /\ MouseFrame
  /\ UNCHANGED <<selectionText, copiedText, dragVars>>
  /\ pointerLink' = linkUnder(<<mouseX, mouseY>>)
  /\ UNCHANGED <<currentHoveredLink, cursor, hoveredLinkRange>>
  /\ IF ~wasmTerm
     THEN UNCHANGED <<mouseMoveThrottleTimeout, pendingMouseMove, hoverRuns, hoverAge,
                      linkLookups>>
     ELSE IF isDraggingScrollbar
          THEN /\ hoverRuns' = <<>>
               /\ UNCHANGED <<mouseMoveThrottleTimeout, pendingMouseMove, hoverAge, linkLookups>>
          ELSE throttledMouseMove(<<mouseX, mouseY>>)
  /\ IF isSelecting
     THEN /\ previousSelection' = normalizeSelection
          /\ selectionEnd' = <<pixelToCell(mouseX, mouseY)>>
          /\ UNCHANGED <<selectionStart, isSelecting>>
     ELSE UNCHANGED selectionVars
  /\ IF wasmTerm /\ isDraggingScrollbar /\ scrollbarDragStart # <<>> /\ scrollbackLength > 0
     THEN Apply(scrollToOffset(viewportY, scrollbackLength, dragTarget(mouseY, scrollbackLength)))
     ELSE scrollFired' = <<>> /\ UNCHANGED <<viewportY, scrollbarVars>>

\* a mouseup anywhere in the document: the SelectionManager's listener (the
\* text it copies goes to the clipboard) and Terminal.handleMouseUp, each if it
\* is registered
MouseUp ==
  LET selecting == <<"document", "mouseup", "SelectionManager.boundMouseUpHandler", FALSE>>
                     \in listeners
      dragging == <<"document", "mouseup", "handleMouseUp", FALSE>> \in listeners
  IN  /\ selecting \/ dragging
      /\ call' = Call("handleMouseUp", 0)
      /\ MouseFrame
      /\ scrollFired' = <<>>
      /\ UNCHANGED <<viewportY, selectionStart, selectionEnd, previousSelection,
                     selectionText, scrollbarDragStartViewportY, hoverVars>>
      /\ isSelecting' = IF selecting THEN FALSE ELSE isSelecting
      /\ copiedText' = IF selecting /\ isSelecting /\ getSelection # <<>>
                       THEN <<getSelection>> ELSE copiedText
      /\ IF dragging /\ isDraggingScrollbar
         THEN /\ isDraggingScrollbar' = FALSE
              /\ scrollbarDragStart' = <<>>
              /\ IF scrollbarVisible /\ getScrollbackLength > 0
                 THEN showScrollbar(FALSE)
                 ELSE UNCHANGED scrollbarVars
         ELSE UNCHANGED <<isDraggingScrollbar, scrollbarDragStart, scrollbarVars>>

\* the timer armed by handleMouseMove runs: it replays the pending event
MouseMoveThrottleTimer ==
  /\ mouseMoveThrottleTimeout = <<0>>
  /\ call' = Call("mouseMoveThrottle", 0)
  /\ MouseFrame
  /\ scrollFired' = <<>>
  /\ UNCHANGED <<viewportY, scrollbarVars, selectionVars, selectionText, copiedText, dragVars,
                 currentHoveredLink, cursor, hoveredLinkRange, pointerLink>>
  /\ mouseMoveThrottleTimeout' = <<>>
  /\ IF pendingMouseMove # <<>>
     THEN /\ pendingMouseMove' = <<>>
          /\ IF wasmTerm
             THEN processMouseMove(pendingMouseMove[1])
             ELSE hoverRuns' = <<>> /\ UNCHANGED <<hoverAge, linkLookups>>
     ELSE /\ hoverRuns' = <<>>
          /\ UNCHANGED <<pendingMouseMove, hoverAge, linkLookups>>

\* the lookups in flight without the i-th, the older ones marked
SettleLookup(i) ==
  [k \in 1..(Len(linkLookups) - 1) |->
     IF k < i THEN [linkLookups[k] EXCEPT !.stale = TRUE] ELSE linkLookups[k + 1]]

\* the viewport row on which the renderer underlines link, if it is visible
linkViewportRow(link) ==
  LET row == link[1] - getScrollbackLength + flooredViewportY(viewportY)
  IN  IF row < rows /\ row >= 0 THEN <<row>> ELSE <<>>

\* the i-th lookup in flight resolves: the .then callback of processMouseMove
ResolveLookup(i) ==
  /\ i \in 1..Len(linkLookups)
  /\ call' = Call("getLinkAt.then", 0)
  /\ MouseFrame
  /\ scrollFired' = <<>>
  /\ UNCHANGED <<viewportY, scrollbarVars, selectionVars, selectionText, copiedText, dragVars,
                 mouseMoveThrottleTimeout, pendingMouseMove, hoverRuns, hoverAge, pointerLink>>
  /\ linkLookups' = SettleLookup(i)
  /\ LET link == linkLookups[i].link
     IN  IF link # currentHoveredLink
         THEN /\ currentHoveredLink' = link
              /\ cursor' = IF isDisposed THEN cursor
                           ELSE IF link # <<>> THEN "pointer" ELSE "text"
              /\ hoveredLinkRange' = IF isDisposed THEN hoveredLinkRange
                                     ELSE IF link # <<>> THEN linkViewportRow(link) ELSE <<>>
         ELSE UNCHANGED <<currentHoveredLink, cursor, hoveredLinkRange>>

\* the pointer leaves the parent element: Terminal.handleMouseLeave
MouseLeave ==
  /\ isOpen
  /\ call' = Call("handleMouseLeave", 0)
  /\ MouseFrame
  /\ scrollFired' = <<>>
  /\ UNCHANGED <<viewportY, scrollbarVars, selectionVars, selectionText, copiedText, dragVars,
                 mouseMoveThrottleTimeout, pendingMouseMove, hoverAge>>
  /\ hoverRuns' = <<>>
  /\ hoveredLinkRange' = IF wasmTerm THEN <<>> ELSE hoveredLinkRange
  /\ currentHoveredLink' = <<>>
  /\ cursor' = IF currentHoveredLink # <<>> THEN "text" ELSE cursor
  /\ pointerLink' = <<>>
  /\ linkLookups' = [k \in 1..Len(linkLookups) |-> [linkLookups[k] EXCEPT !.stale = TRUE]]

\* ms milliseconds pass without an event; a timer is never run early, it may
\* be run late
Elapse(ms) ==
  /\ mouseMoveThrottleTimeout # <<>> \/ (hoverAge # <<>> /\ hoverAge[1] < MouseMoveThrottleMs)
  /\ mouseMoveThrottleTimeout' =
       IF mouseMoveThrottleTimeout = <<>> THEN <<>>
       ELSE <<Max2(0, mouseMoveThrottleTimeout[1] - ms)>>
  /\ hoverAge' = IF hoverAge = <<>> THEN <<>> ELSE <<Min2(MouseMoveThrottleMs, hoverAge[1] + ms)>>
  /\ UNCHANGED <<tvars, ivars, rows, grid, selectionVars, selectionText, dragVars,
                 managerWasmTerm, highlightedRows, copiedText, pendingMouseMove, hoverRuns, linkVars>>

\* ------------------------------------------------- viewport specification
Amounts == {-FarOut, -1, 0, 1, FarOut}

PageAmounts == {-1, 0, 1}

LineTargets == {-FarOut, 0, 1, 2, FarOut}

IInit ==
  /\ handlerDisposed = FALSE
  /\ inputListeners = AttachedListeners
  /\ isComposing = FALSE
  /\ lastKeyDownData = Null
  /\ lastKeyDownTime = 0
  /\ unmatchedKeyDown = Null
  /\ lastPasteData = Null
  /\ lastPasteTime = 0
  /\ lastPasteSource = "null"
  /\ lastCompositionData = Null
  /\ lastCompositionTime = 0
  /\ lastBeforeInputData = Null
  /\ lastBeforeInputTime = 0
  /\ now = 0
  /\ ev = NoEvent

TInit ==
  /\ isOpen = FALSE
  /\ listeners = {}
  /\ isDisposed = FALSE
  /\ wasmTerm = FALSE
  /\ scrollbackLength = 0
  /\ smoothScrollDuration \in Durations
  /\ viewportY = 0
  /\ targetViewportY = 0
  /\ scrollAnimationStartTime = FALSE
  /\ scrollAnimationStartY = Undefined
  /\ scrollAnimationFrame = FALSE
  /\ animCallbackPending = FALSE
  /\ scrollbarVisible = FALSE
  /\ scrollbarHideTimeout = FALSE
  /\ fadeOutPending = FALSE
  /\ wheelCount = 0
  /\ call = [op |-> "new", arg |-> 0, pre |-> 0, threw |-> FALSE]
  /\ scrollFired = <<>>
  /\ dataFired = <<>>

SInit ==
  /\ rows = Rows
  /\ grid = BlankGrid
  /\ selectionStart = <<>>
  /\ selectionEnd = <<>>
  /\ isSelecting = FALSE
  /\ previousSelection = <<>>
  /\ selectionText = <<>>
  /\ isDraggingScrollbar = FALSE
  /\ scrollbarDragStart = <<>>
  /\ scrollbarDragStartViewportY = 0
  /\ managerWasmTerm = <<>>
  /\ mouseMoveThrottleTimeout = <<>>
  /\ pendingMouseMove = <<>>
  /\ hoverRuns = <<>>
  /\ hoverAge = <<>>
  /\ linkLookups = <<>>
  /\ currentHoveredLink = <<>>
  /\ cursor = "text"
  /\ hoveredLinkRange = <<>>
  /\ pointerLink = <<>>
  /\ highlightedRows = {}
  /\ copiedText = <<>>

\* a terminal and an input handler, both just constructed, the screen blank
Init == TInit /\ IInit /\ SInit

\* the same, the terminal with its default options
DefaultInit == Init /\ smoothScrollDuration = DefaultSmoothScrollDuration

ImmediateNext ==
  \/ Open
  \/ Dispose
  \/ \E grow \in 0..1, respond \in BOOLEAN : Write(grow, respond, grid)
  \/ Reset
  \/ \E amount \in Amounts : ScrollLines(amount)
  \/ \E amount \in PageAmounts : ScrollPages(amount)
  \/ ScrollToTop
  \/ ScrollToBottom
  \/ \E line \in LineTargets : ScrollToLine(line)
  \/ ScrollbarHideTimer
  \/ FadeOutFrame

\* immediate-mode scrolling, output and reset on a terminal without wheel input
ImmediateSpec == Init /\ [][ImmediateNext]_vars

SmoothNext ==
  \/ Open
  \/ Dispose
  \/ \E grow \in 0..1, respond \in BOOLEAN : Write(grow, respond, grid)
  \/ Reset
  \/ \E e \in WheelEvents, custom \in {"none", "false", "true"}, altScreen \in BOOLEAN :
       HandleWheel(e, custom, altScreen)
  \/ AnimateScrollFrame
  \/ ScrollbarHideTimer
  \/ FadeOutFrame

\* wheel-driven smooth scrolling interleaved with output and reset
SmoothSpec == Init /\ [][SmoothNext]_vars


\* the same, with every pending animation frame eventually run by the browser
SmoothFairSpec == Init /\ [][SmoothNext]_vars /\ WF_vars(AnimateScrollFrame)

\* ------------------------------------------------ input specifications
\* a printable key and a key that goes to the key encoder
OverrideKeyEvents ==
  {KeyEvent("KeyA", "a", FALSE, FALSE, FALSE, FALSE),
   KeyEvent("ArrowUp", "ArrowUp", FALSE, TRUE, FALSE, FALSE)}

\* a wheel event in pixels and one in lines, in opposite directions
OverrideWheelEvents == {w \in WheelEvents : w.deltaY \in {-40, 1}}

\* wheel events and keydowns with and without custom handlers
OverrideNext ==
  \/ Open
  \/ Write(1, FALSE, grid)
  \/ \E e \in OverrideWheelEvents, custom \in CustomHandlers, altScreen \in BOOLEAN :
       HandleWheel(e, custom, altScreen)
  \/ \E event \in OverrideKeyEvents, custom \in CustomHandlers : HandleKeyDown(event, custom)

OverrideSpec == Init /\ [][OverrideNext]_vars

\* every mutator of the terminal, in every phase of its life
LifecycleNext ==
  \/ Open
  \/ Dispose
  \/ \E grow \in 0..1 : Write(grow, FALSE, grid)
  \/ \E grow \in 0..1 : Writeln(grow, FALSE, grid)
  \/ \E disableStdin \in BOOLEAN, bracketed \in BOOLEAN : Paste(<<"a">>, disableStdin, bracketed)
  \/ \E wasUserInput \in BOOLEAN, disableStdin \in BOOLEAN :
       Input(<<"a">>, wasUserInput, disableStdin)
  \/ \E newRows \in 1..Rows : Resize(newRows)
  \/ Clear
  \/ Reset
  \/ \E amount \in {-1, 1} : ScrollLines(amount)
  \/ \E amount \in {-1, 1} : ScrollPages(amount)
  \/ ScrollToTop
  \/ ScrollToBottom
  \/ \E line \in LineTargets : ScrollToLine(line)
  \/ SelectAll

LifecycleSpec == DefaultInit /\ [][LifecycleNext]_vars

\* wheel-driven scrolling followed by immediate-mode calls
MixedNext ==
  \/ Open
  \/ \E grow \in 0..1 : Write(grow, FALSE, grid)
  \/ \E e \in {w \in WheelEvents : w.deltaMode = DOM_DELTA_PIXEL} : HandleWheel(e, "none", FALSE)
  \/ AnimateScrollFrame
  \/ \E amount \in {-1, 1} : ScrollLines(amount)
  \/ ScrollToTop
  \/ ScrollToBottom

MixedSpec == DefaultInit /\ [][MixedNext]_vars

\* positions of the pointer: in the text and in the scrollbar's column; near
\* the top and near the bottom of the canvas
MouseXs == {CellWidth \div 2, canvasWidth - ScrollbarGap - ScrollbarWidth \div 2}

MouseYs == {5, 30}

\* 0 is the primary button, 2 the secondary
Buttons == {0, 2}

MouseNext ==
  \/ Open
  \/ scrollbackLength = 0 /\ Write(1, FALSE, grid)
  \/ \E button \in Buttons, mouseX \in MouseXs, mouseY \in MouseYs :
       MouseDown(button, mouseX, mouseY)
  \/ \E mouseX \in MouseXs, mouseY \in MouseYs : MouseMove(mouseX, mouseY)
  \/ MouseUp
  \/ ClearSelection

MouseSpec == DefaultInit /\ [][MouseNext]_vars

\* the time steps between two events, in ms
ElapseSteps == {1, MouseMoveThrottleMs - 1}

\* the pointer over the text, on the first row and on the second
HoverXs == {CellWidth \div 2}

\* a screen with text, and so a link, on its first row only
LinkScreen ==
  [row \in 1..Rows |->
     IF row = 1 THEN [col \in 1..Cols |-> Cell("a", 1)] ELSE BlankLine]

\* the pointer moving over a screen written before it came, time passing, the
\* throttle timer, the answers of the link detector
HoverNext ==
  \/ Open
  \/ Dispose
  \/ hoverAge = <<>> /\ Write(0, FALSE, LinkScreen)
  \/ MouseLeave
  \/ \E mouseX \in HoverXs, mouseY \in MouseYs : MouseMove(mouseX, mouseY)
  \/ MouseMoveThrottleTimer
  \/ \E ms \in ElapseSteps : Elapse(ms)
  \/ \E i \in 1..MaxLookups : ResolveLookup(i)

HoverSpec == DefaultInit /\ [][HoverNext]_vars

\* the same, with the clock advancing, every due timer eventually run by the
\* browser and every lookup eventually answered
HoverFairSpec ==
  /\ DefaultInit /\ [][HoverNext]_vars
  /\ WF_vars(MouseMoveThrottleTimer) /\ WF_vars(Elapse(1)) /\ WF_vars(ResolveLookup(1))

\* the rows of a normalized range, none for null
rangeRows(coords) ==
  IF coords = <<>> THEN {} ELSE coords[1].startRow..coords[1].endRow

\* a fixed-point number passed to an integer parameter of the engine: the
\* fraction is dropped, toward zero
ToInt32(x) == IF x >= 0 THEN x \div Unit ELSE -((-x) \div Unit)

\* CanvasRenderer.render, the line painted in row y of the viewport: the
\* comparisons and the index use the offset as Terminal's render loop passes
\* it, fraction included
renderLine(y, rawViewportY, sb) ==
  IF rawViewportY > 0
  THEN IF Lines(y) < rawViewportY
       THEN [from |-> "scrollback", line |-> ToInt32(Lines(sb) - rawViewportY + Lines(y))]
       ELSE [from |-> "screen", line |-> ToInt32(Lines(y) - rawViewportY)]
  ELSE [from |-> "screen", line |-> y]

\* Terminal.handleClick, the row it asks the link detector about
clickBufferRow(viewportRow, rawViewportY, sb) ==
  LET viewportYForClick == Max2(0, Floor(rawViewportY)) \div Unit
  IN  IF viewportYForClick > 0
      THEN IF viewportRow < viewportYForClick
           THEN sb - viewportYForClick + viewportRow
           ELSE sb + (viewportRow - viewportYForClick)
      ELSE sb + viewportRow

\* one pass of the render loop with the viewport at the bottom, the canvas size
\* and the cursor unchanged and the cursor not blinking: CanvasRenderer.render
\* redraws the rows the engine reports dirty and the rows of the current and of
\* the previous selection, forgets the previous selection, and paints the
\* highlight over the current selection if any row was redrawn
RenderFrame(dirtyRows) ==
  LET selectionRows ==
        (IF hasSelection THEN rangeRows(normalizeSelection) ELSE {})
          \cup rangeRows(previousSelection)
      rendered == {y \in 0..(dimsRows - 1) : y \in dirtyRows \/ y \in selectionRows}
  IN  /\ isOpen /\ ~isDisposed
      /\ viewportY = 0
      /\ call' = Call("render", 0)
      /\ previousSelection' = <<>>
      /\ highlightedRows' =
           (highlightedRows \ rendered)
             \cup (IF hasSelection /\ rendered # {}
                   THEN rangeRows(normalizeSelection) \cap (0..(dimsRows - 1)) ELSE {})
      /\ scrollFired' = <<>>
      /\ dataFired' = <<>>
      /\ UNCHANGED <<wheelCount, ivars, lifecycleVars, scrollbackLength, smoothScrollDuration,
                     viewportY, animVars, scrollbarVars, rows, grid, selectionStart,
                     selectionEnd, isSelecting, selectionText, dragVars, managerWasmTerm,
                     copiedText, hoverVars>>

\* the rows the engine may report dirty in a frame
DirtyRowSets == {{}, {Rows - 1}}

\* selecting with the mouse while the render loop runs
RenderNext ==
  \/ Open
  \/ \E mouseX \in HoverXs, mouseY \in MouseYs : MouseDown(0, mouseX, mouseY)
  \/ \E mouseX \in HoverXs, mouseY \in MouseYs : MouseMove(mouseX, mouseY)
  \/ MouseUp
  \/ ClearSelection
  \/ \E dirtyRows \in DirtyRowSets : RenderFrame(dirtyRows)

RenderSpec == DefaultInit /\ [][RenderNext]_vars

\* selecting with the mouse in a viewport that is scrolled into the scrollback
ScrolledNext ==
  \/ Open
  \/ \E screen \in Grids : scrollbackLength = 0 /\ Write(1, FALSE, screen)
  \/ \E amount \in {-1, 1} : ScrollLines(amount)
  \/ \E mouseX \in HoverXs, mouseY \in MouseYs : MouseDown(0, mouseX, mouseY)
  \/ \E mouseX \in HoverXs, mouseY \in MouseYs : MouseMove(mouseX, mouseY)
  \/ MouseUp
  \/ GetSelection

ScrolledSelectionSpec == DefaultInit /\ [][ScrolledNext]_vars

\* pointer positions of a click: the first and the second column
ClickXs == {CellWidth \div 2, CellWidth + CellWidth \div 2}

\* clicks and drags over a screen that holds text written before the pointer
\* arrives, without scrollback
ClickNext ==
  \/ Open
  \/ \E screen \in Grids : hoverAge = <<>> /\ Write(0, FALSE, screen)
  \/ \E mouseX \in ClickXs, mouseY \in MouseYs : MouseDown(0, mouseX, mouseY)
  \/ \E mouseX \in ClickXs, mouseY \in MouseYs : MouseMove(mouseX, mouseY)
  \/ MouseUp

ClickSpec == DefaultInit /\ [][ClickNext]_vars

\* arguments of the programmatic selection calls: below, inside and beyond the grid
SelectColumns == {-1, 0, Cols - 1, Cols}
SelectRows == {-1, 0, Rows - 1, Rows}
SelectLengths == {-1, 0, 1, Cols, Cols + 1, Cols * Rows + 1}

SelectionApiNext ==
  \/ Open
  \/ Reset
  \/ \E newRows \in 1..Rows : Resize(newRows)
  \/ SelectAll
  \/ \E column \in SelectColumns, row \in SelectRows, length \in SelectLengths :
       Select(column, row, length)
  \/ \E start \in SelectRows, end \in SelectRows : SelectLines(start, end)
  \/ ClearSelection

\* the programmatic selection calls on a terminal that is resized and reset
SelectionApiSpec == DefaultInit /\ [][SelectionApiNext]_vars

\* the keys C22 names, pressed without modifiers
EchoedKeyEvents ==
  {KeyEvent("KeyA", "a", FALSE, FALSE, FALSE, FALSE)}
    \cup {KeyEvent(code, code, FALSE, FALSE, FALSE, FALSE) : code \in {"Enter", "Backspace", "Delete"}}

\* the beforeinput events that echo them, and insertText of another character
EchoInputTypes ==
  {"insertText", "insertLineBreak", "insertParagraph", "deleteContentBackward",
   "deleteContentForward"}

EchoInputData == {<<>>, <<"a">>, <<"b">>}

TypingNext ==
  \/ \E event \in EchoedKeyEvents : HandleKeyDown(event, "none")
  \/ \E inputType \in EchoInputTypes, data \in EchoInputData :
       HandleBeforeInput(inputType, data, FALSE)
  \/ Tick

\* typing on a device that reports each key press as a keydown and as a
\* beforeinput
TypingSpec == DefaultInit /\ [][TypingNext]_vars

\* keys that go to the encoder (ArrowUp, Ctrl+A), a key that does not, and two
\* keys whose code the key map does not know, one of them printable
EncoderKeyEvents ==
  {KeyEvent("ArrowUp", "ArrowUp", FALSE, FALSE, FALSE, FALSE),
   KeyEvent("KeyA", "a", FALSE, TRUE, FALSE, FALSE),
   KeyEvent("KeyA", "a", FALSE, FALSE, FALSE, FALSE),
   KeyEvent("Unidentified", "Unidentified", FALSE, FALSE, FALSE, FALSE),
   KeyEvent("Unidentified", "a", FALSE, FALSE, FALSE, FALSE)}

EncoderNext ==
  \/ \E event \in EncoderKeyEvents : HandleKeyDown(event, "none")
  \/ HandleCompositionStart
  \/ HandleCompositionEnd(<<"a">>)
  \/ InputDispose

\* key presses whose encoding can fail, among the other events
EncoderSpec == DefaultInit /\ [][EncoderNext]_vars

KeyNext ==
  \/ \E event \in KeyEvents : HandleKeyDown(event, "none")
  \/ \E event \in TypingKeyEvents, custom \in {"false", "true"} : HandleKeyDown(event, custom)
  \/ HandleCompositionStart
  \/ HandleCompositionUpdate
  \/ \E data \in {<<>>, <<"a">>} : HandleCompositionEnd(data)
  \/ InputDispose

\* every key press, with and without a consuming custom handler, composition
\* and disposal
KeySpec == DefaultInit /\ [][KeyNext]_vars

InputNext ==
  \/ \E event \in TypingKeyEvents : HandleKeyDown(event, "none")
  \/ \E hasClipboardData \in BOOLEAN, text \in Texts \cup {<<>>} :
       HandlePaste(hasClipboardData, text)
  \/ \E inputType \in InputTypes, data \in InputData, eventIsComposing \in BOOLEAN :
       HandleBeforeInput(inputType, data, eventIsComposing)
  \/ HandleCompositionStart
  \/ \E data \in Texts \cup {<<>>} : HandleCompositionEnd(data)
  \/ Tick

\* keyboard, clipboard, beforeinput and composition events interleaved with
\* the passage of time
InputSpec == DefaultInit /\ [][InputNext]_vars

\* the key presses of an input-method session: a plain letter, a key flagged
\* isComposing, and the placeholder key (keyCode 229) some browsers send
CompositionKeyEvents ==
  {KeyEvent("KeyA", "a", FALSE, FALSE, FALSE, FALSE),
   [KeyEvent("Enter", "Enter", FALSE, FALSE, FALSE, FALSE) EXCEPT !.isComposing = TRUE],
   [KeyEvent("Enter", "Process", FALSE, FALSE, FALSE, FALSE) EXCEPT !.keyCode = 229]}

CompositionNext ==
  \/ \E event \in CompositionKeyEvents, custom \in CustomHandlers : HandleKeyDown(event, custom)
  \/ \E data \in InputData, eventIsComposing \in BOOLEAN :
       HandleBeforeInput("insertText", data, eventIsComposing)
  \/ HandleCompositionStart
  \/ HandleCompositionUpdate
  \/ \E data \in Texts \cup {<<>>} : HandleCompositionEnd(data)
  \/ Tick

DisposalNext ==
  \/ \E event \in TypingKeyEvents : HandleKeyDown(event, "none")
  \/ HandlePaste(TRUE, <<"a">>)
  \/ \E inputType \in {"insertText", "insertFromPaste"} :
       HandleBeforeInput(inputType, <<"a">>, FALSE)
  \/ HandleCompositionStart
  \/ HandleCompositionUpdate
  \/ HandleCompositionEnd(<<"a">>)
  \/ InputDispose

\* an input handler that is disposed of, once or repeatedly, at any point of
\* the event stream, its handlers still being called afterwards
DisposalSpec == DefaultInit /\ [][DisposalNext]_vars

TextNext ==
  \/ Open
  \/ \E screen \in Grids : Write(0, FALSE, screen)
  \/ SelectAll
  \/ \E column \in {0, Cols - 1}, row \in 0..(Rows - 1), length \in {1, Cols + 1} :
       Select(column, row, length)
  \/ ClearSelection
  \/ GetSelection
  \/ \E newRows \in 1..Rows : Resize(newRows)

\* the text of a selection made through the selection API, read back with
\* getSelection(), on a terminal that is resized
SelectionTextSpec == DefaultInit /\ [][TextNext]_vars

\* input-method sessions: composition events with the key presses and
\* beforeinput events that accompany them
CompositionSpec == DefaultInit /\ [][CompositionNext]_vars


\* ---------------------------------------------------- claims C1, C2, C3
ScrollCalls == {"scrollLines", "scrollPages", "scrollToTop", "scrollToBottom", "scrollToLine"}

\* an immediate-mode scroll call has just returned normally on an open terminal
ScrollCallReturned == call.op \in ScrollCalls /\ ~call.threw /\ isOpen

\* the offset the call asked for, clamped to [0, scrollbackLength]
ClampedRequest ==
  LET hi == Lines(getScrollbackLength)
  IN  CASE call.op = "scrollLines" -> Clamp(hi, call.pre - Lines(call.arg))
        [] call.op = "scrollPages" -> Clamp(hi, call.pre - Lines(call.arg * Rows))
        [] call.op = "scrollToTop" -> hi
        [] call.op = "scrollToBottom" -> 0
        [] call.op = "scrollToLine" -> Clamp(hi, Lines(call.arg))
        [] OTHER -> call.pre

\* C1: after scrollLines, scrollPages, scrollToTop, scrollToBottom or
\* scrollToLine returns, 0 <= viewportY <= getScrollbackLength(), whatever the
\* argument and whatever the state the call started from; scrolling up by more
\* than the scrollback leaves viewportY = scrollbackLength, scrolling down by
\* more than the offset leaves viewportY = 0.
C1_OffsetClampedAfterScroll ==
  ScrollCallReturned =>
    /\ 0 <= viewportY
    /\ viewportY <= Lines(getScrollbackLength)
    /\ (call.op = "scrollLines" /\ call.arg = -FarOut) => viewportY = Lines(getScrollbackLength)
    /\ (call.op = "scrollLines" /\ call.arg = FarOut) => viewportY = 0

\* C2: an immediate-mode scroll call fires exactly one onScroll notification,
\* carrying the new offset, when the clamped requested offset differs from the
\* offset the call started from, and none when it is equal.
C2_OneNotificationPerChange ==
  ScrollCallReturned =>
    IF ClampedRequest # call.pre
    THEN scrollFired = <<ClampedRequest>> /\ viewportY = ClampedRequest
    ELSE scrollFired = <<>> /\ viewportY = call.pre

\* C3: write() of new output while viewportY # 0 leaves viewportY = 0 and fires
\* exactly one onScroll notification, with value 0; write() while viewportY = 0
\* fires none and leaves viewportY = 0.
C3_WriteSnapsToLiveTail ==
  (call.op = "write" /\ ~call.threw) =>
    /\ viewportY = 0
    /\ scrollFired = IF call.pre # 0 THEN <<0>> ELSE <<>>

\* a write that arrived while the viewport was scrolled back, here during a
\* smooth scroll that is still running
C3_Witness ==
  /\ call.op = "write" /\ ~call.threw
  /\ call.pre # 0
  /\ scrollFired = <<0>>
  /\ scrollAnimationFrame

\* ------------------------------------------ claims C4, C5, C6, C7 and C10
\* a compositionend (a) and a beforeinput of type insertText or insertFromPaste
\* (b) carrying the same non-empty text
CompositionPair(a, b) ==
  /\ a.path = "compositionend" /\ b.path = "beforeinput"
  /\ b.inputType \in {"insertText", "insertFromPaste"}
  /\ a.data # <<>> /\ a.data = b.data

\* C4: a compositionend committing X and a beforeinput (insertText or
\* insertFromPaste) carrying the same X, delivered one right after the other
\* within the de-dup window, in either order, produce exactly one onData
\* emission, equal to X.
C4_CompositionAndBeforeInputEmitOnce ==
  [][(/\ now' = now
      /\ CompositionPair(ev, ev') \/ CompositionPair(ev', ev)
      /\ ev'.time - ev.time < BEFORE_INPUT_IGNORE_MS)
       => ev.out \o ev'.out = <<ev.data>>]_vars

\* a clipboard paste event (a) and a beforeinput insertFromPaste (b) that is
\* not part of a composition, carrying the same non-empty text
PastePair(a, b) ==
  /\ a.path = "paste" /\ b.path = "beforeinput" /\ b.inputType = "insertFromPaste"
  /\ a.data # <<>> /\ a.data = b.data
  /\ ~b.composing /\ ~b.flagged

\* C5: a paste event carrying X and a beforeinput insertFromPaste carrying X,
\* delivered one right after the other within the de-dup window, in either
\* order, produce exactly one paste emission for X (X itself, or X in the
\* bracketed-paste wrapper).
C5_PasteAndBeforeInputEmitOnce ==
  [][(/\ now' = now
      /\ PastePair(ev, ev') \/ PastePair(ev', ev)
      /\ ev'.time - ev.time < BEFORE_INPUT_IGNORE_MS)
       => /\ Len(ev.out \o ev'.out) = 1
          /\ (ev.out \o ev'.out)[1] \in {ev.data, BracketedPasteStart \o ev.data \o BracketedPasteEnd}]_vars

\* a beforeinput insertFromPaste swallowed 50 ms after the paste event that
\* carried the same text was emitted
C5_Witness ==
  /\ ev.path = "beforeinput" /\ ev.inputType = "insertFromPaste"
  /\ ev.suppressedBy = "paste" /\ ev.out = <<>>
  /\ lastPasteData = Null
  /\ 0 < ev.time - lastPasteTime /\ ev.time - lastPasteTime < BEFORE_INPUT_IGNORE_MS

\* C6: a de-dup record never suppresses once its age has reached
\* BEFORE_INPUT_IGNORE_MS: every suppression is by a record younger than the
\* window, and a payload that was emitted on one path and is delivered next on
\* another path, the window having elapsed, is emitted again.
C6_StaleRecordNeverSuppresses ==
  [][now' = now =>
       /\ ev'.suppressedBy = "keydown" => now - lastKeyDownTime < BEFORE_INPUT_IGNORE_MS
       /\ ev'.suppressedBy = "paste" => now - lastPasteTime < BEFORE_INPUT_IGNORE_MS
       /\ ev'.suppressedBy = "composition" => now - lastCompositionTime < BEFORE_INPUT_IGNORE_MS
       /\ ev'.suppressedBy = "beforeinput" => now - lastBeforeInputTime < BEFORE_INPUT_IGNORE_MS
       /\ (/\ ev.out # <<>> /\ ev'.path # ev.path
           /\ ev'.payload # <<>> /\ ev'.payload = ev.payload
           /\ ev'.time - ev.time >= BEFORE_INPUT_IGNORE_MS)
            => ev'.out # <<>> /\ ev'.suppressedBy = "none"]_vars

\* text committed by a composition and delivered again by beforeinput once the
\* window has elapsed: the record is still there, and the text is emitted again
C6_Witness ==
  /\ ev.path = "beforeinput" /\ ev.inputType = "insertText" /\ ev.data = <<"a">>
  /\ lastCompositionData = <<"a">>
  /\ ev.time - lastCompositionTime >= BEFORE_INPUT_IGNORE_MS
  /\ ev.out = <<<<"a">>>>

\* the handler got as far as its de-dup checks with this event: it was not
\* dropped as disposed, composing, consumed or empty
ReachedDeDup(e) == e.payload # <<>>

DeDupPaths == {"keydown", "paste", "beforeinput", "compositionend"}

\* C7 as stated: of two consecutive deliveries of the same event on one path,
\* each produces its own emission.
C7_SamePathRepeatsBothEmit ==
  (ev.path \in DeDupPaths /\ ev.repeats # "no" /\ ReachedDeDup(ev))
    => ev.repeats = "emitted" /\ ev.out # <<>>

\* C7: a same-path repeat is never suppressed on account of the delivery it
\* repeats: if the first of two consecutive deliveries of the same event on one
\* path was emitted, so is the second, and a paste record only ever suppresses
\* a report from the other paste source.
C7_RepeatOfEmittedIsEmitted ==
  /\ (ev.path \in DeDupPaths /\ ev.repeats = "emitted" /\ ReachedDeDup(ev))
       => ev.out # <<>> /\ ev.suppressedBy = "none"
  /\ (ev.path = "paste" /\ ev.suppressedBy = "paste") => ev.repeats # "emitted"

\* the second of two paste events carrying the same text, both emitted
C7_Witness ==
  /\ ev.path = "paste" /\ ev.repeats = "emitted" /\ ev.out # <<>>
  /\ lastPasteData = ev.data /\ lastPasteSource = "paste"

\* the fixed table of C10
FixedSequence(code) ==
  CASE code = "Enter" -> <<"CR">>
    [] code = "Tab" -> <<"HT">>
    [] code = "Backspace" -> <<"DEL">>
    [] code = "Escape" -> <<"ESC">>
    [] code = "Home" -> <<"ESC", "[", "H">>
    [] code = "End" -> <<"ESC", "[", "F">>
    [] code = "Insert" -> <<"ESC", "[", "2", "~">>
    [] code = "Delete" -> <<"ESC", "[", "3", "~">>
    [] code = "PageUp" -> <<"ESC", "[", "5", "~">>
    [] code = "PageDown" -> <<"ESC", "[", "6", "~">>
    [] code = "F1" -> <<"ESC", "O", "P">>
    [] code = "F2" -> <<"ESC", "O", "Q">>
    [] code = "F3" -> <<"ESC", "O", "R">>
    [] code = "F4" -> <<"ESC", "O", "S">>
    [] code = "F5" -> <<"ESC", "[", "1", "5", "~">>
    [] code = "F6" -> <<"ESC", "[", "1", "7", "~">>
    [] code = "F7" -> <<"ESC", "[", "1", "8", "~">>
    [] code = "F8" -> <<"ESC", "[", "1", "9", "~">>
    [] code = "F9" -> <<"ESC", "[", "2", "0", "~">>
    [] code = "F10" -> <<"ESC", "[", "2", "1", "~">>
    [] code = "F11" -> <<"ESC", "[", "2", "3", "~">>
    [] code = "F12" -> <<"ESC", "[", "2", "4", "~">>

\* C10: each of Enter, Tab, Backspace, Escape, Home, End, Insert, Delete,
\* PageUp, PageDown and F1..F12, pressed with no modifier or with Shift only on
\* a live handler, outside a composition and not consumed by a custom key
\* handler, makes handleKeyDown emit exactly one payload, the entry of the fixed
\* table, without consulting the key encoder.
C10_SpecialKeysEmitFixedSequence ==
  (/\ ev.path = "keydown" /\ ev.code \in SpecialCodes /\ ev.key = ev.code
   /\ ev.mods \subseteq {"SHIFT"}
   /\ ~ev.disposed /\ ~ev.composing /\ ~ev.flagged /\ ~ev.handled)
    => ev.out = <<FixedSequence(ev.code)>> /\ ev.encoder = "unused"

\* Shift+F12 pressed on a live handler
C10_Witness ==
  /\ ev.path = "keydown" /\ ev.code = "F12" /\ ev.mods = {"SHIFT"}
  /\ ~ev.disposed /\ ~ev.composing /\ ~ev.flagged /\ ~ev.handled
  /\ ev.out = <<<<"ESC", "[", "2", "4", "~">>>>
  /\ lastKeyDownData = <<"ESC", "[", "2", "4", "~">>
  /\ ev.encoder = "unused"

\* ------------------------------------------------------------ claim C11
\* C11: on a live handler compositionstart sets the composing flag and
\* compositionend clears it; a keydown that arrives while the flag is set, or
\* that is flagged isComposing or carries keyCode 229, emits nothing, invokes
\* neither the onKey callback nor the custom key handler and changes no de-dup
\* record; compositionstart, compositionupdate and a beforeinput during the
\* composition emit nothing; compositionend emits its text, once, unless the
\* text is empty or equals a beforeinput payload recorded less than
\* BEFORE_INPUT_IGNORE_MS ago, in which case it emits nothing.
C11_CompositionStateMachine ==
  [][now' = now =>
       /\ (ev'.path = "compositionstart" /\ ~handlerDisposed) => isComposing'
       /\ (ev'.path = "compositionend" /\ ~handlerDisposed) => ~isComposing'
       /\ (ev'.path = "keydown" /\ (isComposing \/ ev'.flagged)) =>
            /\ ev'.out = <<>> /\ ev'.callbacks = <<>> /\ ~ev'.onKey /\ ~ev'.prevented
            /\ UNCHANGED <<isComposing, keyDownVars, pasteVars, compositionVars, beforeInputVars>>
       /\ (ev'.path \in {"compositionstart", "compositionupdate"}) => ev'.out = <<>>
       /\ (ev'.path = "beforeinput" /\ (isComposing \/ ev'.flagged)) => ev'.out = <<>>
       /\ (ev'.path = "compositionend" /\ ~handlerDisposed) =>
            ev'.out = IF \/ ev'.data = <<>>
                         \/ /\ lastBeforeInputData = ev'.data
                            /\ now - lastBeforeInputTime < BEFORE_INPUT_IGNORE_MS
                      THEN <<>>
                      ELSE <<ev'.data>>]_vars

\* a key pressed during a composition with a custom key handler attached: the
\* handler is not asked, nothing is emitted, nothing recorded
C11_Witness ==
  /\ ev.path = "keydown" /\ ev.code = "KeyA" /\ ev.composing /\ ~ev.flagged
  /\ ev.custom = "true" /\ ev.callbacks = <<>> /\ ev.out = <<>>
  /\ isComposing /\ lastKeyDownData = Null

\* ------------------------------------------------------------ claim C12
\* C12: dispose() returns normally however often it is called; from its first
\* call on isActive() is false and none of the listeners the handler registered
\* on the container or the input element is left; an event handed to any
\* handler after that emits nothing, invokes no callback and changes neither
\* the composing flag nor a de-dup record, and a further dispose() changes
\* nothing.
C12_DisposeIdempotent ==
  [][/\ ev'.path = "dispose" => ~isActive' /\ inputListeners' = {}
     /\ handlerDisposed =>
          /\ ~isActive' /\ inputListeners' = {}
          /\ ev'.out = <<>> /\ ev'.callbacks = <<>> /\ ~ev'.prevented
          /\ UNCHANGED <<isComposing, keyDownVars, pasteVars, compositionVars, beforeInputVars>>]_vars

\* a second dispose() on a handler that was disposed of during a composition
C12_Witness ==
  /\ ev.path = "dispose" /\ ev.disposed /\ ev.composing
  /\ ~isActive /\ inputListeners = {} /\ isComposing

\* ------------------------------------------------------------ claim C13
\* C13: once dispose() has run, none of the listeners registered by open() and
\* its subsystems on the parent element (wheel, mousedown, mousemove,
\* mouseleave, click, beforeinput) or on document (handleMouseUp and the
\* selection manager's mouseup listener) is still registered.
C13_NoListenerAfterDispose == isDisposed => listeners = {}

\* ------------------------------------------------------------ claim C14
\* the text of one cell as the claim describes it
CellText(cell) ==
  IF cell.width = 0 THEN <<>> ELSE IF cell.codepoint = "NUL" THEN <<"SP">> ELSE <<cell.codepoint>>

RECURSIVE Concat(_)
Concat(seqs) == IF seqs = <<>> THEN <<>> ELSE Head(seqs) \o Concat(Tail(seqs))

\* the text of row row of the range c: its cells from startCol (first row) or 0
\* to endCol (last row) or the last column of the row
RowText(row, c) ==
  Concat([i \in 1..((IF row = c.endRow THEN c.endCol ELSE Cols - 1)
                      - (IF row = c.startRow THEN c.startCol ELSE 0) + 1) |->
            CellText(grid[row + 1][(IF row = c.startRow THEN c.startCol ELSE 0) + i])])

\* the rows joined by one newline each, none after the last
RECURSIVE JoinedRows(_, _)
JoinedRows(row, c) ==
  IF row = c.endRow THEN RowText(row, c)
  ELSE RowText(row, c) \o <<"LF">> \o JoinedRows(row + 1, c)

\* C14: getSelection() returns the cells of the normalized range row by row
\* (from startCol on the first row, to endCol on the last, whole rows between),
\* width-0 cells skipped and code point 0 rendered as a space, with one newline
\* between consecutive rows and no newline after the last row.
C14_SelectionText ==
  (isOpen /\ hasSelection) =>
    LET c == normalizeSelection[1]
        text == getSelection
    IN  /\ c.endRow < rows => text = JoinedRows(c.startRow, c)
        /\ text # <<>> => text[Len(text)] # "LF"

\* ------------------------------------------------------------ claim C15
\* the custom key handler was called for the event e
HandlerCalled(e) == \E i \in DOMAIN e.callbacks : e.callbacks[i] = "customKeyEventHandler"

\* the callbacks cbs without the call of the custom key handler
WithoutHandler(cbs) == SelectSeq(cbs, LAMBDA c : c # "customKeyEventHandler")

\* the step is a keydown whose handler returned false, and it is a step that
\* the same keydown takes when no handler is attached, the call of the handler
\* apart
FalseKeyHandlerIsNoHandler ==
  (HandlerCalled(ev') /\ ev'.custom = "false" /\ ev' # ev) =>
    \E event \in OverrideKeyEvents, encoded \in EncoderOutcomes, copied \in BOOLEAN :
      LET n == keyDownOutcome(event, "none", encoded, copied)
      IN  /\ [ev' EXCEPT !.custom = "none", !.callbacks = WithoutHandler(@),
                         !.repeats = n.ev.repeats] = n.ev
          /\ IF n.record # Null THEN recordKeyDownData(n.record) ELSE UNCHANGED keyDownVars

\* C15: a keydown whose custom key handler returns true emits nothing and
\* records nothing for de-duplication, and onKey was delivered before the
\* handler was called; a wheel event whose custom wheel handler returns true
\* changes neither the offset nor the animation target, fires no scroll
\* notification and emits no arrow keys; a handler that returns false leaves the
\* default handling as it is without a handler.
C15_OverrideHooks ==
  [][/\ (HandlerCalled(ev') /\ ev'.custom = "true") =>
          /\ ev'.out = <<>>
          /\ UNCHANGED keyDownVars
          /\ ev'.callbacks = <<"onKey", "customKeyEventHandler">>
     /\ FalseKeyHandlerIsNoHandler
     /\ \A e \in OverrideWheelEvents, altScreen \in BOOLEAN :
          /\ HandleWheel(e, "true", altScreen) =>
               /\ UNCHANGED <<viewportY, targetViewportY>>
               /\ scrollFired' = <<>>
               /\ dataFired' = <<>>
          /\ HandleWheel(e, "false", altScreen) <=> HandleWheel(e, "none", altScreen)]_vars

\* a keydown was consumed by the custom key handler after onKey, and a wheel
\* event that would have scrolled into the scrollback left the viewport and the
\* target where they were
C15_Witness ==
  /\ HandlerCalled(ev) /\ ev.custom = "true" /\ ev.onKey /\ ev.out = <<>>
  /\ call.op = "handleWheel" /\ call.arg < 0 /\ scrollbackLength > 0
  /\ viewportY = 0 /\ targetViewportY = 0 /\ dataFired = <<>>

\* ------------------------------------------------------------ claim C16
\* the mutators of Terminal, by the name their call is recorded under (writeln
\* is recorded as the write it makes)
Mutators ==
  {"write", "paste", "input", "resize", "clear", "reset", "scrollLines", "scrollPages",
   "scrollToTop", "scrollToBottom", "scrollToLine"}

\* C16: a mutator called before open() or after dispose() throws, and the
\* failed call changes neither viewportY nor the selection and emits no
\* notification; open() throws when the terminal is already open or disposed.
C16_MutatorsThrowUnlessOpen ==
  [][/\ (call'.op \in Mutators /\ ~assertOpen) =>
          /\ call'.threw
          /\ UNCHANGED <<viewportY, selectionVars>>
          /\ scrollFired' = <<>> /\ dataFired' = <<>>
     /\ (call' # call /\ call'.op = "open" /\ (isOpen \/ isDisposed)) =>
          /\ call'.threw
          /\ UNCHANGED lifecycleVars]_vars

\* ------------------------------------------------------------ claim C17
\* e is a clipboard paste event or a beforeinput insertFromPaste
PasteEvent(e) ==
  e.path = "paste" \/ (e.path = "beforeinput" /\ e.inputType = "insertFromPaste")

\* the paste e was accepted: it carries text, reached a live handler (for
\* beforeinput, outside a composition) and was not dropped as the duplicate of
\* the same paste seen through the other event
AcceptedPaste(e) ==
  /\ PasteEvent(e) /\ ~e.disposed /\ e.data # <<>> /\ e.suppressedBy = "none"
  /\ e.path = "beforeinput" => (~e.composing /\ ~e.flagged)

\* C17: an accepted paste emits exactly once: the text between ESC[200~ and
\* ESC[201~ if and only if the engine reported mode 2004 when that paste asked
\* for it, else the text as it is; a paste without clipboard data or with empty
\* text emits nothing.
C17_BracketedPaste ==
  /\ AcceptedPaste(ev) =>
       /\ ev.mode2004 # "unqueried"
       /\ ev.out = <<IF ev.mode2004 = "on"
                     THEN BracketedPasteStart \o ev.data \o BracketedPasteEnd
                     ELSE ev.data>>
  /\ (PasteEvent(ev) /\ ev.data = <<>>) => ev.out = <<>>

\* two pastes of the same text in a row were both accepted, the second with
\* the mode on although the text was recorded by the first
C17_Witness ==
  /\ AcceptedPaste(ev) /\ ev.repeats = "emitted" /\ ev.mode2004 = "on"
  /\ ev.out = <<BracketedPasteStart \o ev.data \o BracketedPasteEnd>>

\* ------------------------------------------------------------ claim C18
\* C18: every onScroll notification carries the integer floor(viewportY) of the
\* offset that viewportY holds when the notification is delivered, whichever
\* operation fires it.
C18_NotifiedFloorOfOffset ==
  \A i \in DOMAIN scrollFired : scrollFired[i] = Floor(viewportY)

\* ------------------------------------------------------------ claim C19
\* C19: over every sequence of mousedown, mousemove and mouseup events the
\* scrollbar drag and the selection drag are never both in progress, and a
\* mousedown in the scrollbar's column while the scrollback is non-empty leaves
\* the selection as it was.
C19_DragsMutuallyExclusive ==
  [][/\ ~(isDraggingScrollbar' /\ isSelecting')
     /\ \A button \in Buttons, mouseX \in MouseXs, mouseY \in MouseYs :
          (MouseDown(button, mouseX, mouseY) /\ inScrollbar(mouseX) /\ scrollbackLength > 0)
            => UNCHANGED selectionVars]_vars

\* ------------------------------------------------------------ claim C20
\* C20: a primary-button press that reaches the canvas clears an existing
\* selection, keeping its normalized form as the previous one, and makes the
\* pressed cell both anchor and active endpoint with isSelecting true; a
\* mousemove changes the active endpoint only, and only while isSelecting; a
\* mouseup on the document ends isSelecting; clearSelection() leaves no
\* selection and isSelecting false, whatever the state it is called in.
C20_SelectionLifecycle ==
  [][/\ \A mouseX \in MouseXs, mouseY \in MouseYs :
          /\ (MouseDown(0, mouseX, mouseY) /\ ~(scrollbackLength > 0 /\ inScrollbar(mouseX))) =>
               /\ selectionStart' = <<pixelToCell(mouseX, mouseY)>>
               /\ selectionEnd' = selectionStart'
               /\ isSelecting'
               /\ hasSelection => previousSelection' = normalizeSelection
          /\ MouseMove(mouseX, mouseY) =>
               /\ UNCHANGED <<selectionStart, isSelecting>>
               /\ IF isSelecting
                  THEN selectionEnd' = <<pixelToCell(mouseX, mouseY)>>
                  ELSE UNCHANGED selectionEnd
     /\ MouseUp => ~isSelecting'
     /\ ClearSelection => (selectionStart' = <<>> /\ selectionEnd' = <<>> /\ ~isSelecting')]_vars

\* a selection dragged from one cell to another and released
C20_Witness ==
  /\ call.op = "handleMouseUp" /\ ~isSelecting
  /\ hasSelection /\ selectionStart # selectionEnd /\ previousSelection # <<>>

\* ------------------------------------------------------------ claim C21
\* a stored endpoint that names a cell of a grid of the given number of rows
InGrid(p, gridRows) ==
  /\ p # <<>>
  /\ 0 <= p[1].col /\ p[1].col <= Cols - 1
  /\ 0 <= p[1].row /\ p[1].row <= gridRows - 1

\* the position of a cell in row-major order
CellIndex(p) == p[1].row * Cols + p[1].col

\* what a step that is a programmatic selection call must establish
C21_Step ==
  /\ (isOpen /\ (\/ SelectAll
                    \/ \E column \in SelectColumns, row \in SelectRows, length \in SelectLengths :
                         Select(column, row, length)
                    \/ \E start \in SelectRows, end \in SelectRows : SelectLines(start, end)))
        => InGrid(selectionStart', rows') /\ InGrid(selectionEnd', rows')
     /\ \A column \in SelectColumns, row \in SelectRows, length \in SelectLengths :
          LET c0 == Max2(0, Min2(column, Cols - 1))
              r0 == Max2(0, Min2(row, rows - 1))
          IN  (isOpen /\ Select(column, row, length) /\ length >= 1
                 /\ r0 * Cols + c0 + length <= rows * Cols)
              => /\ selectionStart' = <<[col |-> c0, row |-> r0]>>
                 /\ CellIndex(selectionEnd') - CellIndex(selectionStart') + 1 = length

\* C21: after selectAll(), select(column, row, length) and selectLines(start,
\* end) on an open terminal, with arguments below, inside and beyond the
\* grid, both stored endpoints name cells of the terminal's grid; and a
\* select() of length >= 1 that fits the grid covers exactly length cells in
\* row-major order from the clamped (column, row).
C21_ProgrammaticSelectionInGrid == [][C21_Step]_vars

\* C21 on a terminal whose SelectionManager still holds the Terminal's engine
C21_InGridBeforeReset ==
  [][managerWasmTerm = <<>> => C21_Step]_vars

\* ------------------------------------------------------------ claim C22
\* this step delivers a beforeinput event whose mapped output is payload
EchoDelivered(payload) ==
  \E inputType \in EchoInputTypes, data \in EchoInputData :
    /\ beforeInputOutput(inputType, data) = payload
    /\ HandleBeforeInput(inputType, data, FALSE)

\* C22: a keydown that emitted P, followed within the de-dup window by a
\* beforeinput whose mapped output equals P, gives one emission of P: the
\* beforeinput emits nothing, also when beforeinput events with other payloads
\* were delivered between the two.
C22_KeyDownThenBeforeInputEmitsOnce ==
  [][(/\ unmatchedKeyDown # Null
      /\ IsFresh(now, lastKeyDownTime)
      /\ EchoDelivered(unmatchedKeyDown))
       => ev'.out = <<>>]_vars

\* the same for a beforeinput that meets the keydown's record, as the one that
\* follows the keydown directly does
C22_RecordedKeyDownSuppresses ==
  [][(/\ lastKeyDownData # Null
      /\ IsFresh(now, lastKeyDownTime)
      /\ EchoDelivered(lastKeyDownData))
       => ev'.out = <<>> /\ ev'.suppressedBy = "keydown"]_vars

\* ------------------------------------------------------------ claim C23
CrossPaths == {"keydown", "beforeinput", "compositionend"}

\* b reports, on another of the three paths and inside the de-dup window, the
\* payload that a emitted; a beforeinput that carries a paste is a report of the
\* paste path (C4, C5) and not one of these
CrossPathRepeat(a, b) ==
  /\ a.path \in CrossPaths /\ b.path \in CrossPaths /\ a.path # b.path
  /\ "insertFromPaste" \notin {a.inputType, b.inputType}
  /\ a.out # <<>>
  /\ b.payload # <<>> /\ b.payload = a.payload
  /\ b.time - a.time < BEFORE_INPUT_IGNORE_MS

\* C23: for every ordered pair of distinct paths among keydown, beforeinput
\* and compositionend, a payload emitted on the first path and reported next,
\* within the window, on the second is not emitted again.
C23_CrossPathSuppression ==
  [][(now' = now /\ CrossPathRepeat(ev, ev')) => ev'.out = <<>>]_vars

\* the ordered pairs for which the handler keeps and consults a record:
\* keydown then beforeinput, and beforeinput text with compositionend in
\* either order
CheckedPair(a, b) ==
  \/ a.path = "keydown" /\ b.path = "beforeinput"
  \/ {a.path, b.path} = {"beforeinput", "compositionend"}

C23_CheckedPairsSuppress ==
  [][(now' = now /\ CrossPathRepeat(ev, ev') /\ CheckedPair(ev, ev')) => ev'.out = <<>>]_vars

\* ------------------------------------------------------------ claim C24
\* this step clears a record that was set
Cleared(record, recordAfter) == record # Null /\ recordAfter = Null

\* the paste, composition and beforeinput records are cleared by a delivery
\* exactly when they suppress it; the keydown record is cleared when it
\* suppresses; no record suppresses two equal reports in a row
C24_OtherRecordsClearedOnSuppression ==
  [][now' = now =>
       /\ Cleared(lastPasteData, lastPasteData') <=> ev'.suppressedBy = "paste"
       /\ Cleared(lastCompositionData, lastCompositionData') <=> ev'.suppressedBy = "composition"
       /\ Cleared(lastBeforeInputData, lastBeforeInputData') <=> ev'.suppressedBy = "beforeinput"
       /\ ev'.suppressedBy = "keydown" => Cleared(lastKeyDownData, lastKeyDownData')
       /\ (/\ ev.suppressedBy # "none" /\ ev'.path = ev.path
           /\ ev'.payload # <<>> /\ ev'.payload = ev.payload)
            => ev'.suppressedBy # ev.suppressedBy]_vars

\* C24: each de-dup record (last keydown, last paste, last composition, last
\* beforeinput) is cleared by a delivery exactly when it suppresses that
\* delivery, so a check against a non-matching payload leaves it in place; and
\* after a record suppressed a report, an equal report delivered next on the
\* same path is not suppressed by that record again.
C24_RecordClearedExactlyOnSuppression ==
  [][now' = now =>
       /\ Cleared(lastKeyDownData, lastKeyDownData') <=> ev'.suppressedBy = "keydown"
       /\ Cleared(lastPasteData, lastPasteData') <=> ev'.suppressedBy = "paste"
       /\ Cleared(lastCompositionData, lastCompositionData') <=> ev'.suppressedBy = "composition"
       /\ Cleared(lastBeforeInputData, lastBeforeInputData') <=> ev'.suppressedBy = "beforeinput"
       /\ (/\ ev.suppressedBy # "none" /\ ev'.path = ev.path
           /\ ev'.payload # <<>> /\ ev'.payload = ev.payload)
            => ev'.suppressedBy # ev.suppressedBy]_vars

\* ------------------------------------------------------------ claim C25
\* the handler's de-dup records, composing flag, disposal flag and listeners
\* are what they were
HandlerStateKept ==
  UNCHANGED <<keyDownVars, pasteVars, compositionVars, beforeInputVars, isComposing,
              handlerDisposed, inputListeners>>

\* a keydown during which the encoder throws emits nothing and changes nothing
\* in the handler, and the keydown delivered after it is processed as usual:
\* it reaches the onKey callback, and a printable key is emitted and recorded
EncoderFailureDropsOneEvent ==
  \A event \in EncoderKeyEvents :
    HandleKeyDown(event, "none") =>
      /\ ev'.encoder = "threw" => ev'.out = <<>> /\ HandlerStateKept
      /\ (ev.path = "keydown" /\ ev.encoder = "threw") =>
           /\ ev'.onKey
           /\ isPrintableCharacter(event) =>
                ev'.out = <<<<event.key>>>> /\ lastKeyDownData' = <<event.key>>

C26_TargetIsOffsetWhenIdle ==
  ~scrollAnimationFrame => targetViewportY = viewportY

\* the smooth-scroll path itself leaves the two equal whenever it comes to
\* rest: after a zero-duration jump and after the tick that ends an animation
C26_SmoothScrollRestsOnTarget ==
  [][(/\ ~scrollAnimationFrame'
      /\ \/ AnimateScrollFrame /\ scrollAnimationFrame
         \/ \E e \in WheelEvents : HandleWheel(e, "none", FALSE) /\ scrollFired' # <<>>)
       => targetViewportY' = viewportY']_vars

\* ------------------------------------------------------------ claim C27
\* a frame callback is pending only while its id is stored, so that
\* smoothScrollTo, which starts a chain only when no id is stored, never adds a
\* second callback to a pending one
OneChain == animCallbackPending => scrollAnimationFrame

\* a wheel scroll that reaches smoothScrollTo while an animation is running
\* replaces the target and nothing else of the animation
RetargetOnly ==
  \A e \in WheelEvents :
    (HandleWheel(e, "none", FALSE) /\ scrollAnimationFrame /\ deltaLines(e) # 0)
      => /\ targetViewportY' = Clamp(Lines(getScrollbackLength), viewportY - deltaLines(e))
         /\ UNCHANGED <<viewportY, scrollAnimationStartTime, scrollAnimationStartY,
                        scrollAnimationFrame, animCallbackPending>>

\* a start time is stored, that is a chain is started, only when none is running
StartsOnlyWhenIdle ==
  (scrollAnimationStartTime' /\ ~scrollAnimationStartTime)
    => ~scrollAnimationFrame /\ ~animCallbackPending

\* the single-chain part of C27
C27_SingleChain == []OneChain /\ [][RetargetOnly /\ StartsOnlyWhenIdle]_vars

\* a wheel event has just arrived while an animation was running
Retargeted == call.op = "handleWheel" /\ scrollAnimationFrame /\ scrollFired = <<>>

\* from some point on the terminal is left to its animation frames and timers
LeftToItsFrames == <>[](call.op \in {"animateScroll", "hideScrollbar", "fadeOutScrollbar"})

\* the animation has ended on its target, or was cancelled by dispose()
Converged == ~scrollAnimationFrame /\ (isDisposed \/ viewportY = targetViewportY)

\* C27: at most one smooth-scroll animation chain is in flight; a
\* smoothScrollTo call made while an animation is running replaces
\* targetViewportY only (no further frame, start time and start offset kept), a
\* chain is started only when none is running, and the running animation, once
\* no further call interferes, converges to the updated target.
C27_OneChainConvergesOnNewTarget ==
  /\ []OneChain
  /\ [][RetargetOnly /\ StartsOnlyWhenIdle]_vars
  /\ LeftToItsFrames => (Retargeted ~> Converged)

\* ------------------------------------------------------------ claim C28
\* write() or an immediate-mode scroll call has just set the offset (it fired
\* onScroll) while a smooth-scroll animation was running
SnappedDuringAnimation ==
  /\ call.op \in ScrollCalls \cup {"write"} /\ ~call.threw
  /\ scrollFired # <<>>
  /\ scrollAnimationFrame

\* C28: when write() or an immediate-mode scroll call sets the offset while a
\* smooth-scroll animation is running, the offset keeps that value: the
\* animation tick that comes next, no user scroll request having been made,
\* does not move viewportY.
C28_SnapWinsOverAnimation ==
  [][(SnappedDuringAnimation /\ AnimateScrollFrame) => viewportY' = viewportY]_vars

\* ------------------------------------------------------------ claim C29
\* an open terminal with no smooth-scroll animation in flight
SettlePoint == isOpen /\ ~scrollAnimationFrame

OffsetInScrollback == 0 <= viewportY /\ viewportY <= Lines(getScrollbackLength)

\* C29: at every settle point of an open terminal, 0 <= viewportY <= the
\* engine's scrollback length, after any sequence of operations, reset() and
\* scrollToTop() on an empty scrollback included.
C29_OffsetInScrollbackWhenSettled == SettlePoint => OffsetInScrollback

\* the same on a terminal that has not been reset (its SelectionManager still
\* holds the engine it was opened with)
C29_InScrollbackUntilReset ==
  (SettlePoint /\ managerWasmTerm = <<>>) => OffsetInScrollback

\* ------------------------------------------------------------ claim C30
\* this step is the run of a callback that was scheduled earlier: the
\* smooth-scroll animation frame, the scrollbar's auto-hide timer, or the frame
\* of a fade-out
ScheduledCallback == AnimateScrollFrame \/ ScrollbarHideTimer \/ FadeOutFrame

\* the terminal's own fields, the bookkeeping of what is scheduled set aside
TerminalStateKept ==
  UNCHANGED <<lifecycleVars, scrollbackLength, viewportY, targetViewportY,
              scrollAnimationStartTime, scrollAnimationStartY, scrollAnimationFrame,
              scrollbarVisible, scrollbarHideTimeout>>

\* C30: after dispose() has returned, no timer or animation-frame callback
\* scheduled before it changes the terminal's state: not the smooth-scroll
\* animation, not the scrollbar auto-hide timer, not an in-flight fade-out.
C30_NoCallbackActsAfterDispose ==
  [][(isDisposed /\ ScheduledCallback) => TerminalStateKept]_vars

\* dispose() leaves neither the smooth-scroll frame nor the auto-hide timer
\* pending, and nothing arms them again afterwards
C30_ScrollAndHideCancelled ==
  isDisposed => ~animCallbackPending /\ ~scrollbarHideTimeout

\* ------------------------------------------------------- claim C31
\* the step called processMouseMove
HoverProcessed ==
  /\ call'.op \in {"handleMouseMove", "mouseMoveThrottle"}
  /\ hoverRuns' # <<>>
  /\ hoverAge' = <<0>>

\* C31: while no scrollbar drag is active, two calls of processMouseMove are
\* at least 16 ms apart, whatever the timing of the mousemove events
C31_HoverRecomputationsThrottled ==
  [][HoverProcessed /\ ~isDraggingScrollbar /\ hoverAge # <<>>
       => hoverAge[1] >= MouseMoveThrottleMs]_vars

\* what the throttle does ensure: the timer's replay comes at least 16 ms
\* after the call before it
C31_ReplayWaitsFullInterval ==
  [][HoverProcessed /\ call'.op = "mouseMoveThrottle"
       => hoverAge # <<>> /\ hoverAge[1] >= MouseMoveThrottleMs]_vars

\* ------------------------------------------------------- claim C32
\* a mousemove outside a scrollbar drag is processed at once or kept as the
\* pending event, with the timer armed
MoveProcessedOrPending ==
  \A mouseX \in HoverXs, mouseY \in MouseYs :
    MouseMove(mouseX, mouseY) /\ ~isDraggingScrollbar
      => \/ hoverRuns' = << <<mouseX, mouseY>> >>
         \/ pendingMouseMove' = << <<mouseX, mouseY>> >> /\ mouseMoveThrottleTimeout' # <<>>

\* a pending event is processed by the timer unless a newer mousemove takes
\* its place first
PendingReplayed(position) ==
  (~isDisposed /\ pendingMouseMove = <<position>>)
    ~> \/ hoverRuns = <<position>> /\ call.op = "mouseMoveThrottle"
       \/ pendingMouseMove # <<>> /\ pendingMouseMove # <<position>>
       \/ isDisposed

\* C32: on an open terminal with no scrollbar drag in progress, the position
\* of the last mousemove is eventually processed, at once or by the throttle
\* timer's replay, and pendingMouseMove is empty once the timer has run
C32_LastMoveEventuallyProcessed ==
  /\ [][MoveProcessedOrPending]_vars
  /\ \A mouseX \in HoverXs, mouseY \in MouseYs : PendingReplayed(<<mouseX, mouseY>>)
  /\ [][MouseMoveThrottleTimer => pendingMouseMove' = <<>>]_vars

\* a pending event has been replayed by the timer
C32_Witness ==
  /\ call.op = "mouseMoveThrottle"
  /\ hoverRuns # <<>>
  /\ pendingMouseMove = <<>>
  /\ ~isDisposed

\* ------------------------------------------------------- claim C33
\* what the completion of a lookup may set
HoverState == <<currentHoveredLink, cursor, hoveredLinkRange>>

\* a lookup resolves after a newer one has resolved or after the pointer has left
StaleLookupResolves ==
  \E i \in 1..MaxLookups :
    /\ i <= Len(linkLookups)
    /\ linkLookups[i].stale
    /\ ResolveLookup(i)

\* every event has been processed and every lookup answered
HoverSettled == ~isDisposed /\ pendingMouseMove = <<>> /\ linkLookups = <<>>

\* C33: a link lookup that resolves after a newer one, or after a mouseleave,
\* changes neither currentHoveredLink nor the cursor nor the hovered link
\* range; once all lookups have resolved the hovered link is the one under the
\* pointer at the most recent mouse event
C33_StaleLookupsIgnored ==
  /\ [][StaleLookupResolves => UNCHANGED HoverState]_vars
  /\ [](HoverSettled => currentHoveredLink = pointerLink)

\* what the completion callback does ensure: the hovered link is the answer of
\* the lookup that resolved last, or none since a mouseleave after it
C33_LastAnswerWins ==
  [][/\ \A i \in 1..MaxLookups :
          (i <= Len(linkLookups) /\ ResolveLookup(i))
            => currentHoveredLink' = linkLookups[i].link
      /\ (MouseLeave => currentHoveredLink' = <<>>)]_vars

\* ------------------------------------------------------- claim C34
\* the offset changed while the scrollback is not empty and no scrollbar drag
\* is active
OffsetChangedOutsideDrag ==
  /\ viewportY' # viewportY
  /\ getScrollbackLength' > 0
  /\ ~isDraggingScrollbar

\* C34: after an offset change made while scrollback is non-empty and no drag
\* is active the scrollbar stays shown for the whole hide delay counted from
\* the most recent change, that is for as long as the auto-hide timer armed by
\* that change is pending, also when a fade-out from an earlier timer is
\* running; releasing a scrollbar drag re-arms the timer
C34_ShownForFullHideDelay ==
  /\ [][OffsetChangedOutsideDrag => scrollbarVisible' /\ scrollbarHideTimeout']_vars
  /\ [](scrollbarHideTimeout => scrollbarVisible)
  /\ [][MouseUp /\ isDraggingScrollbar /\ scrollbarVisible /\ getScrollbackLength > 0
          => scrollbarHideTimeout']_vars

\* what showScrollbar does ensure: every such offset change shows the
\* scrollbar and arms the timer anew, and the timer itself hides nothing while
\* no fade-out is running
C34_ShownAndArmedOnChange ==
  /\ [][OffsetChangedOutsideDrag => scrollbarVisible' /\ scrollbarHideTimeout']_vars
  /\ [][scrollbarVisible /\ ~scrollbarVisible' => fadeOutPending /\ ~fadeOutPending']_vars

\* ------------------------------------------------------------- claim C35

\* the rows that carry the highlight of an earlier frame and lie outside the
\* current selection
StaleHighlight ==
  highlightedRows \ (IF hasSelection THEN rangeRows(normalizeSelection) ELSE {})

\* C35: at every render frame at viewport offset 0, each row that carried the
\* selection highlight in the previously rendered frame and is not covered by
\* the current selection lies in the previous-selection range handed to the
\* renderer, whatever press, move and clear events happened since that frame,
\* and the previous range is cleared by the frame
C35_HighlightErased ==
  [][\A dirtyRows \in DirtyRowSets :
       RenderFrame(dirtyRows)
         => /\ StaleHighlight \subseteq rangeRows(previousSelection)
            /\ previousSelection' = <<>>]_vars

\* what holds instead: a frame hands the renderer the range that the latest
\* move or clear replaced, and forgets it; a row highlighted before and in
\* neither range keeps its highlight unless the engine reports it dirty
C35_LastReplacedRangeOnly ==
  [][\A dirtyRows \in DirtyRowSets :
       RenderFrame(dirtyRows)
         => /\ previousSelection' = <<>>
            /\ highlightedRows' \cap rangeRows(previousSelection)
                 \subseteq rangeRows(normalizeSelection)
            /\ StaleHighlight \ (rangeRows(previousSelection) \cup dirtyRows)
                 \subseteq highlightedRows']_vars

\* ------------------------------------------------------------- claim C36

\* the line the sentence names for viewport row r at offset v: with f the
\* floor of v, line sb - f + r of the scrollback when r < f, row r - f of the
\* screen otherwise
FlooredLine(r, v, sb) ==
  LET f == v \div Unit
  IN  IF r < f THEN [from |-> "scrollback", line |-> sb - f + r]
      ELSE [from |-> "screen", line |-> r - f]

\* the same line as a row of the buffer, the scrollback first
BufferRowOf(l, sb) == IF l.from = "scrollback" THEN l.line ELSE sb + l.line

OffsetInRange == viewportY >= 0 /\ viewportY <= Lines(scrollbackLength)

\* C36: for every viewport row and every offset between 0 and the scrollback
\* length, whole or fractional, the renderer, the hover hit-test and the click
\* hit-test pick the same source line, the one given by the floor of the offset
C36_OneLineMapping ==
  OffsetInRange =>
    \A r \in 0..(rows - 1) :
      /\ renderLine(r, viewportY, scrollbackLength) = FlooredLine(r, viewportY, scrollbackLength)
      /\ hoverLine(r, viewportY, scrollbackLength) = FlooredLine(r, viewportY, scrollbackLength)
      /\ hoverBufferRow(r, viewportY, scrollbackLength)
           = BufferRowOf(FlooredLine(r, viewportY, scrollbackLength), scrollbackLength)
      /\ clickBufferRow(r, viewportY, scrollbackLength)
           = BufferRowOf(FlooredLine(r, viewportY, scrollbackLength), scrollbackLength)

\* what holds instead: both hit-tests use the floor of the offset, and the
\* renderer agrees with them at whole offsets; at a fractional offset the
\* renderer paints a scrollback line in row floor(v), where the hit-tests see
\* the first row of the screen
C36_HitTestsFloorRendererWhole ==
  OffsetInRange =>
    \A r \in 0..(rows - 1) :
      /\ hoverLine(r, viewportY, scrollbackLength) = FlooredLine(r, viewportY, scrollbackLength)
      /\ hoverBufferRow(r, viewportY, scrollbackLength)
           = BufferRowOf(FlooredLine(r, viewportY, scrollbackLength), scrollbackLength)
      /\ clickBufferRow(r, viewportY, scrollbackLength)
           = BufferRowOf(FlooredLine(r, viewportY, scrollbackLength), scrollbackLength)
      /\ viewportY = Floor(viewportY)
           => renderLine(r, viewportY, scrollbackLength)
                = FlooredLine(r, viewportY, scrollbackLength)
      /\ (viewportY # Floor(viewportY) /\ r = viewportY \div Unit)
           => /\ renderLine(r, viewportY, scrollbackLength).from = "scrollback"
              /\ hoverLine(r, viewportY, scrollbackLength).from = "screen"

\* ------------------------------------------------------------- claim C37

\* the text of the rows from row on of range c as the viewport shows them when
\* its first f rows come from the scrollback: viewport row r shows row r - f of
\* the screen
RECURSIVE PaintedRowsText(_, _, _)
PaintedRowsText(row, c, f) ==
  IF row > c.endRow THEN <<>>
  ELSE IF getLine(row - f) = <<>> THEN PaintedRowsText(row + 1, c, f)
  ELSE lineText(getLine(row - f), IF row = c.startRow THEN c.startCol ELSE 0,
                IF row = c.endRow THEN c.endCol ELSE Len(getLine(row - f)) - 1)
         \o (IF row < c.endRow THEN <<"LF">> ELSE <<>>)
         \o PaintedRowsText(row + 1, c, f)

\* a selection all of whose rows the viewport shows from the screen
SelectionBelowScrollback ==
  /\ isOpen /\ hasSelection
  /\ normalizeSelection[1].startRow >= viewportY \div Unit

\* C37: getSelection() returns, for every selected viewport row, the content
\* painted in that row at the current offset, not the row of the screen with
\* the same index (stated here for the rows painted from the screen; the
\* model keeps no content for the lines of the scrollback)
C37_SelectionIsWhatIsPainted ==
  [][(GetSelection /\ SelectionBelowScrollback)
       => selectionText' = PaintedRowsText(normalizeSelection[1].startRow,
                                           normalizeSelection[1], viewportY \div Unit)]_vars

\* what holds instead: getSelection() reads the rows of the screen by the
\* selection's row numbers, whatever the offset of the viewport
C37_SelectionReadsScreenRows ==
  [][(GetSelection /\ isOpen /\ hasSelection)
       => selectionText' = PaintedRowsText(normalizeSelection[1].startRow,
                                           normalizeSelection[1], 0)]_vars

\* ------------------------------------------------------------- claim C38

\* handleWheel runs on the normal screen, not consumed by a custom handler,
\* with a non-zero delta whose clamped target is the current offset
WheelToCurrentOffset ==
  \E e \in WheelEvents, custom \in {"none", "false"} :
    /\ HandleWheel(e, custom, FALSE)
    /\ wasmTerm
    /\ deltaLines(e) # 0
    /\ Clamp(Lines(getScrollbackLength), viewportY - deltaLines(e)) = viewportY

\* C38: a wheel gesture on the normal screen whose clamped target equals the
\* current offset changes no state, fires no onScroll notification and does
\* not show the scrollbar, with a zero and with a non-zero smoothScrollDuration
C38_WheelToCurrentOffsetIsNoOp ==
  [][WheelToCurrentOffset
       => /\ scrollFired' = <<>>
          /\ UNCHANGED <<viewportY, animVars, scrollbarVars>>]_vars

\* what holds instead: the offset stays, but unless an animation is already
\* running the gesture notifies onScroll with the unchanged offset and, with a
\* non-empty scrollback, shows the scrollbar and re-arms its hide timer
C38_WheelToCurrentOffsetNotifies ==
  [][WheelToCurrentOffset
       => /\ viewportY' = viewportY
          /\ (smoothScrollDuration = 0 \/ ~scrollAnimationFrame)
               => /\ scrollFired' = Fire(<<Floor(viewportY)>>)
                  /\ getScrollbackLength > 0
                       => scrollbarVisible' /\ scrollbarHideTimeout']_vars

\* ------------------------------------------------------------- claim C39

\* the release that directly follows a primary-button press which started a
\* selection
ReleaseRightAfterPress ==
  /\ call.op = "handleMouseDown" /\ call.arg = 0 /\ isSelecting
  /\ MouseUp

\* C39: a primary-button press directly followed by the release, with no
\* mousemove in between, leaves hasSelection() true with anchor and active
\* end both on the pressed cell, and copies the cell's text to the clipboard,
\* notifying the selection-change listeners, exactly when that text is not
\* empty: a plain click never leaves the terminal without a selection
C39_ClickSelectsOneCell ==
  /\ [][\A mouseX \in ClickXs, mouseY \in MouseYs :
          (MouseDown(0, mouseX, mouseY) /\ ~(wasmTerm /\ scrollbackLength > 0
                                             /\ inScrollbar(mouseX)))
            => /\ selectionStart' = <<pixelToCell(mouseX, mouseY)>>
               /\ selectionEnd' = <<pixelToCell(mouseX, mouseY)>>
               /\ isSelecting']_vars
  /\ [][ReleaseRightAfterPress
          => /\ hasSelection'
             /\ UNCHANGED <<selectionStart, selectionEnd>>
             /\ selectionStart' = selectionEnd'
             /\ ~isSelecting'
             /\ copiedText' = IF getSelection # <<>> THEN <<getSelection>> ELSE <<>>]_vars

\* a click on a cell with text has been released: the one-cell selection
\* stands and its text was copied
C39_Witness ==
  /\ call.op = "handleMouseUp"
  /\ hasSelection /\ selectionStart = selectionEnd /\ ~isSelecting
  /\ copiedText = <<getSelection>> /\ getSelection = <<"a">>

\* a click on the padding cell of a wide character has been released: the
\* one-cell selection stands, nothing was copied
C39_WitnessEmptyText ==
  /\ call.op = "handleMouseUp"
  /\ hasSelection /\ selectionStart = selectionEnd /\ ~isSelecting
  /\ getSelection = <<>> /\ copiedText = <<>>

\* ------------------------------------------------------------- claim C40

\* a step of user input taken while options.disableStdin is true; handleWheel
\* does not read the option, its step is the same whatever the option's value
StdinDisabledInput ==
  \/ \E e \in WheelEvents, custom \in {"none", "false", "true"} : HandleWheel(e, custom, TRUE)
  \/ \E bracketed \in BOOLEAN : Paste(<<"a">>, TRUE, bracketed)
  \/ \E wasUserInput \in BOOLEAN : Input(<<"a">>, wasUserInput, TRUE)

\* C40: while options.disableStdin is true no user input reaches the onData
\* listeners: the data the InputHandler emits for key, paste, beforeinput and
\* composition events, Terminal.paste(), Terminal.input() and wheel events on
\* the alternate screen all produce no onData emission
C40_NoDataWhileStdinDisabled ==
  /\ [](inputHandlerOnData(<<"a">>, TRUE) = <<>>)
  /\ [][StdinDisabledInput => dataFired' = <<>>]_vars

\* what holds instead: with disableStdin true the InputHandler's data,
\* paste() and input() emit nothing, and a wheel event on the alternate screen
\* that no custom handler consumes emits its arrow-key sequences
C40_OnlyWheelBypassesDisableStdin ==
  /\ [](inputHandlerOnData(<<"a">>, TRUE) = <<>>)
  /\ [][((\E bracketed \in BOOLEAN : Paste(<<"a">>, TRUE, bracketed))
          \/ (\E wasUserInput \in BOOLEAN : Input(<<"a">>, wasUserInput, TRUE)))
         => dataFired' = <<>>]_vars
  /\ [][\A e \in WheelEvents, custom \in {"none", "false", "true"} :
          HandleWheel(e, custom, TRUE)
            => dataFired' = IF wheelConsumed(custom) THEN <<>> ELSE Fire(wheelArrows(e))]_vars

\* ------------------------------------------------------- claims C8, C9
\* C8: for a non-zero smoothScrollDuration and a finite sequence of
\* smoothScrollTo calls the animation eventually stops: once the terminal is
\* left to its animation frames and timers (no further wheel event, output,
\* reset or other call), a point is reached from which no animation frame is
\* scheduled any more.
C8_AnimationSettles ==
  <>[](call.op \in {"animateScroll", "hideScrollbar", "fadeOutScrollbar"}) => <>[](~animCallbackPending)

\* C9: every animation tick moves viewportY strictly toward the current target
\* without passing it, and leaves it within [0, scrollbackLength].
C9_TickMovesTowardTarget ==
  (call.op = "animateScroll" /\ scrollFired # <<>> /\ smoothScrollDuration # 0) =>
    LET before == targetViewportY - call.pre
        after == targetViewportY - viewportY
    IN  /\ IF before = 0 THEN after = 0 ELSE Abs(after) < Abs(before)
        /\ (before > 0 => after >= 0) /\ (before < 0 => after <= 0)
        /\ 0 <= viewportY /\ viewportY <= Lines(getScrollbackLength)

====
